---- MODULE Spec2Model ----
(***************************************************************************)
(* Model of the data-access module services/firebaseService.ts of the      *)
(* Global Chat App: validation functions and the CRUD operations on the    *)
(* document store (posts, comments, likes, groups, events, profiles).      *)
(*                                                                         *)
(* Every exported async function is a call made by a caller process.  The  *)
(* synchronous part before the first await (validation) is the Call step;  *)
(* every awaited store call is one step, at which the store either applies *)
(* the call or rejects it (a network or store failure), and at which calls *)
(* of other callers may interleave.                                        *)
(***************************************************************************)
EXTENDS Integers, Sequences, FiniteSets, TLC

\* -------------------------------------------------------------- bounds
\* Number of documents the store ever assigns an id to (addDoc calls).
MaxDocs == 3

\* Snapshots the store emits to one subscription, and calls of the handle
\* that cancels it.
MaxSnapshots == 3
MaxUnsubscribe == 2

\* Identity-change events the provider has raised and not yet delivered.
MaxAuthEvents == 2

\* Documents in the collection 'messages'.
MaxMessages == 2

\* Caller processes whose calls may overlap (Spec); SpecSeq uses caller 1 only.
Procs == {1, 2}

\* Document ids handed to the operations as arguments: every id the store can
\* assign, so an argument may name a missing or an already deleted document.
Ids == 1..MaxDocs

Users == {"u1", "u2"}

\* ------------------------------------------------------------- strings
\* A JavaScript string is modelled by its length and by the length that
\* String.prototype.trim() leaves (leading and trailing whitespace removed).
Str(n) == [len |-> n, trimLen |-> n]
Blank(n) == [len |-> n, trimLen |-> 0]
Padded(n, k) == [len |-> n + k, trimLen |-> n]

Trim(s) == [len |-> s.trimLen, trimLen |-> s.trimLen]

\* !obj.field?.trim() : the field is absent, or empty after trim().
Has(r, f) == f \in DOMAIN r
MissingOrBlank(r, f) == IF Has(r, f) THEN Trim(r[f]).len = 0 ELSE TRUE

\* errors.join(', ')
RECURSIVE Join(_)
Join(errors) ==
  IF Len(errors) = 0 THEN ""
  ELSE IF Len(errors) = 1 THEN errors[1]
  ELSE errors[1] \o ", " \o Join(Tail(errors))

\* ---------------------------------------------------------- validation
validateUserProfile(profile) ==
  (IF MissingOrBlank(profile, "displayName") THEN <<"Display name is required">>
   ELSE IF profile.displayName.len < 2
     THEN <<"Display name must be at least 2 characters">>
   ELSE IF profile.displayName.len > 50
     THEN <<"Display name must be less than 50 characters">>
   ELSE <<>>)
  \o
  (IF Has(profile, "bio") /\ profile.bio.len # 0 /\ profile.bio.len > 500
     THEN <<"Bio must be less than 500 characters">>
   ELSE <<>>)

\* Faulty variant: rejects a title of exactly 100 characters.
validatePostTitle_Below100(post) ==
  IF MissingOrBlank(post, "title") THEN <<"Title is required">>
  ELSE IF post.title.len < 3 THEN <<"Title must be at least 3 characters">>
  ELSE IF post.title.len >= 100
    THEN <<"Title must be less than 100 characters">>
  ELSE <<>>

validatePostTitle(post) ==
  IF MissingOrBlank(post, "title") THEN <<"Title is required">>
  ELSE IF post.title.len < 3 THEN <<"Title must be at least 3 characters">>
  ELSE IF post.title.len > 100 THEN <<"Title must be less than 100 characters">>
  ELSE <<>>

validatePostContent(post) ==
  IF MissingOrBlank(post, "content") THEN <<"Content is required">>
  ELSE IF post.content.len < 10 THEN <<"Content must be at least 10 characters">>
  ELSE IF post.content.len > 2000
    THEN <<"Content must be less than 2000 characters">>
  ELSE <<>>

validatePost(post) == validatePostTitle(post) \o validatePostContent(post)

validateComment(comment) ==
  IF MissingOrBlank(comment, "content") THEN <<"Comment content is required">>
  ELSE IF comment.content.len < 1 THEN <<"Comment must have content">>
  ELSE IF comment.content.len > 500
    THEN <<"Comment must be less than 500 characters">>
  ELSE <<>>

validateGroup(group) ==
  (IF MissingOrBlank(group, "name") THEN <<"Group name is required">>
   ELSE IF group.name.len < 3 THEN <<"Group name must be at least 3 characters">>
   ELSE IF group.name.len > 50
     THEN <<"Group name must be less than 50 characters">>
   ELSE <<>>)
  \o
  (IF MissingOrBlank(group, "description") THEN <<"Group description is required">>
   ELSE IF group.description.len > 500
     THEN <<"Group description must be less than 500 characters">>
   ELSE <<>>)

validateEvent(event) ==
  (IF MissingOrBlank(event, "title") THEN <<"Event title is required">>
   ELSE IF event.title.len < 3 THEN <<"Event title must be at least 3 characters">>
   ELSE IF event.title.len > 100
     THEN <<"Event title must be less than 100 characters">>
   ELSE <<>>)
  \o
  (IF MissingOrBlank(event, "description") THEN <<"Event description is required">>
   ELSE IF event.description.len > 1000
     THEN <<"Event description must be less than 1000 characters">>
   ELSE <<>>)
  \o
  (IF Has(event, "startDate") /\ Has(event, "endDate")
      /\ event.startDate >= event.endDate
     THEN <<"End date must be after start date">>
   ELSE <<>>)

\* --------------------------------------------------------------- state
VARIABLES
  posts,              \* collection 'posts': document id -> document
  comments,           \* collection 'comments'
  likes,              \* collection 'likes'
  groups,             \* collection 'groups'
  groupMembers,       \* collection 'groupMembers'
  events,             \* collection 'events'
  eventParticipants,  \* collection 'eventParticipants'
  userProfiles,       \* collection 'userProfiles'
  userSettings,       \* collection 'userSettings'
  notifications,      \* collection 'notifications'
  nextId,             \* the next document id addDoc assigns
  pc,                 \* per caller: "idle", or the await its call is suspended at
  op,                 \* per caller: the function of its current (or last) call
  args,               \* per caller: the arguments of that call
  loc,                \* per caller: the local constants of the running call
  res,                \* per caller: how the last call ended (value or error)
  listener,           \* the screen's subscription: its query, attached or not
  emitted,            \* the snapshots the store has emitted to the listener
  delivered,          \* the arrays the screen's callback has been invoked with
  unsubscribed,       \* per call of the cancel handle: snapshots emitted so far
  authContext,        \* AuthProvider's state: user, loading, error
  auth,               \* identity provider: currentUser, undelivered events
  screens,            \* per screen: mounted, effect's deps, its subscription
  chatScreen,         \* ChatScreen's state: loading, error
  messages,           \* collection 'messages', in the order of createdAt
  postDetailsScreen,  \* PostDetailsScreen's state: post, isLiked, closures
  solo,               \* per caller: no other caller acted since its call began
  pre,                \* per caller: the posts and likes when its call began
  prev,               \* per caller: the call before, when the call repeats it
  cdOnly,             \* posts touched only by returned createComment/deleteComment
  likeRace,           \* two toggleLike calls for one (post, user) have overlapped
  memberRace,         \* two calls adding one (group, user) member have overlapped
  countRace           \* posts whose commentsCount two createComment calls read alike

postStore == <<posts, comments, likes>>
groupStore == <<groups, groupMembers>>
eventStore == <<events, eventParticipants>>
userStore == <<userProfiles, userSettings, notifications>>
store == <<posts, comments, likes, groups, groupMembers, events,
           eventParticipants, userProfiles, userSettings, notifications,
           nextId>>
subscription == <<listener, emitted, delivered, unsubscribed>>
ghosts == <<solo, pre, prev, cdOnly, likeRace, memberRace, countRace>>
chat == <<chatScreen, messages>>
ui == <<authContext, auth, screens, chat>>
aside == <<postDetailsScreen, ghosts>>
vars == <<store, pc, op, args, loc, res, subscription, ui, aside>>

Nil == [nil |-> TRUE]

\* The screens that subscribe in an effect.  A screen that is not mounted has
\* run no effect and holds no subscription.  user and postId are the values
\* the last effect run saw, live counts the screen's attached listeners, held
\* is the handle the last effect run returned ("none" when it returned no
\* cleanup, "failed" once the store has ended its listener with an error),
\* owed says the store has a snapshot for the listener it has not delivered,
\* closed that a cleanup has called the handle of an attached listener since
\* the screen was mounted.
Screens == {"PostsScreen", "PostDetailsScreen", "ChatScreen"}
Unmounted == [mounted |-> FALSE, user |-> Nil, postId |-> Nil, live |-> 0,
              held |-> "none", owed |-> FALSE, closed |-> FALSE]
NoRes == [status |-> "none", value |-> "none", message |-> ""]
EmptyColl == [i \in {} |-> Nil]

\* The message of the error a rejected store call raises.
StoreError == "store unavailable"
NotFound == "No document to update"

Init ==
  /\ posts = EmptyColl /\ comments = EmptyColl /\ likes = EmptyColl
  /\ groups = EmptyColl /\ groupMembers = EmptyColl
  /\ events = EmptyColl /\ eventParticipants = EmptyColl
  /\ userProfiles = EmptyColl /\ userSettings = EmptyColl
  /\ notifications = EmptyColl
  /\ nextId = 1
  /\ pc = [p \in Procs |-> "idle"]
  /\ op = [p \in Procs |-> "none"]
  /\ args = [p \in Procs |-> Nil]
  /\ loc = [p \in Procs |-> Nil]
  /\ res = [p \in Procs |-> NoRes]
  /\ listener = Nil /\ emitted = <<>> /\ delivered = <<>> /\ unsubscribed = <<>>
  /\ authContext = [user |-> Nil, loading |-> TRUE, error |-> Nil]
  /\ auth = [currentUser |-> Nil, events |-> <<Nil>>,
             profiles |-> [uid \in Users |->
                             IF uid = "u1" THEN [name |-> "U"] ELSE Nil]]
  /\ screens = [screen \in Screens |-> Unmounted]
  /\ chatScreen = [loading |-> TRUE, error |-> Nil]
  /\ messages = <<>>
  /\ postDetailsScreen = [post |-> Nil, isLiked |-> FALSE,
                          handling |-> [pr \in Procs |-> Nil]]
  /\ solo = [p \in Procs |-> TRUE]
  /\ pre = [p \in Procs |-> [posts |-> EmptyColl, likes |-> EmptyColl]]
  /\ prev = [p \in Procs |-> Nil]
  /\ cdOnly = {}
  /\ likeRace = FALSE /\ memberRace = FALSE /\ countRace = {}

\* ------------------------------------------------- the store's own calls
\* addDoc(collection, data): a new document under a fresh id.
AddDoc(coll, id, data) ==
  [i \in DOMAIN coll \cup {id} |-> IF i = id THEN data ELSE coll[i]]

\* deleteDoc(ref): removes the document; succeeds when there is none.
DeleteDocs(coll, ids) == [i \in DOMAIN coll \ ids |-> coll[i]]

\* updateDoc(ref, fields): sets the given fields of an existing document.
Merge(data, fields) ==
  [f \in DOMAIN data \cup DOMAIN fields |->
     IF f \in DOMAIN fields THEN fields[f] ELSE data[f]]
UpdateDoc(coll, id, fields) == [coll EXCEPT ![id] = Merge(@, fields)]

\* getDocs(query(collection, where(f1 == v1), ...)): ids of the matching docs.
Where(coll, f, v) == {i \in DOMAIN coll : coll[i][f] = v}

\* data.count || 0
OrZero(data, f) == IF Has(data, f) THEN data[f] ELSE 0

\* Math.max(0, n)
Max0(n) == IF n > 0 THEN n ELSE 0

\* serverTimestamp(): the store's clock when it applies the write.  The clock
\* is logical: it advances with every document the store creates.
serverTimestamp == nextId
Stamped(data) == Merge(data, [createdAt |-> serverTimestamp])

\* ------------------------------------------------- call, await, return
\* The call is made: the arguments are bound, nothing has been awaited.
\* No service call touches a subscription.
Begin(pr, name, a) ==
  /\ pc[pr] = "idle"
  /\ op' = [op EXCEPT ![pr] = name]
  /\ args' = [args EXCEPT ![pr] = a]
  /\ UNCHANGED <<subscription, ui>>

\* The call suspends at an await (label l) with locals v.
Await(pr, l, v) ==
  /\ pc' = [pc EXCEPT ![pr] = l]
  /\ loc' = [loc EXCEPT ![pr] = v]
  /\ res' = [res EXCEPT ![pr] = NoRes]

\* return value
Return(pr, v) ==
  /\ pc' = [pc EXCEPT ![pr] = "idle"]
  /\ loc' = [loc EXCEPT ![pr] = Nil]
  /\ res' = [res EXCEPT ![pr] = [status |-> "ok", value |-> v, message |-> ""]]

\* catch (error) { console.error(...); throw error; }
Throw(pr, msg) ==
  /\ pc' = [pc EXCEPT ![pr] = "idle"]
  /\ loc' = [loc EXCEPT ![pr] = Nil]
  /\ res' = [res EXCEPT ![pr] =
               [status |-> "error", value |-> "none", message |-> msg]]

\* The running call resumes from the await at label l.
Resume(pr, l) ==
  /\ pc[pr] = l
  /\ UNCHANGED <<op, args, subscription, ui>>

\* The awaited store call is rejected: the error reaches the catch block.
Reject(pr) == Throw(pr, StoreError) /\ UNCHANGED store

\* ------------------------------------------------------ sample arguments
\* createPost payloads: the scenario post, one with both optional fields at
\* the upper limits, one with a 2-character title, one with a blank title and
\* an empty content.
PostPayloads ==
  { [userId |-> "u1", userName |-> "U", title |-> Str(11), content |-> Str(22)],
    [userId |-> "u1", userName |-> "U", title |-> Str(100), content |-> Str(2000),
     userAvatar |-> "avatar", imageData |-> "image"],
    [userId |-> "u1", userName |-> "U", title |-> Str(2), content |-> Str(22)],
    [userId |-> "u1", userName |-> "U", title |-> Blank(3), content |-> Str(0)] }

\* The payloads among them without optional fields.
PlainPosts == {p \in PostPayloads : ~Has(p, "userAvatar") /\ ~Has(p, "imageData")}

ValidPosts == {p \in PlainPosts : validatePost(p) = <<>>}

\* updatePost partial records: content only, title and content, the same with
\* a counter field, and one with a title that is too long.
PostUpdates ==
  { [content |-> Str(22)],
    [title |-> Str(11), content |-> Str(22)],
    [title |-> Str(11), content |-> Str(22), likesCount |-> -1],
    [title |-> Str(101), content |-> Str(22)] }

CommentContents == {Str(5), Blank(2), Str(501)}

CommentPayloads ==
  { [postId |-> p, userId |-> "u1", userName |-> "U", content |-> c] :
      p \in Ids, c \in CommentContents }
  \cup
  { [postId |-> p, userId |-> "u1", userName |-> "U", content |-> Str(5),
     userAvatar |-> "avatar"] : p \in Ids }

PlainComments == {c \in CommentPayloads : ~Has(c, "userAvatar") /\ c.content.len < 500}

\* ----------------------------------------------------------- createPost
\* Faulty variant: stores an empty avatar when the payload has none.
PostDocument_DefaultAvatar(postData) ==
  Merge([userId |-> postData.userId, userName |-> postData.userName,
         title |-> postData.title, content |-> postData.content,
         likesCount |-> 0, commentsCount |-> 0, userAvatar |-> ""],
        [f \in DOMAIN postData \cap {"userAvatar", "imageData"} |-> postData[f]])

PostDocument(postData) ==
  LET base == [userId |-> postData.userId, userName |-> postData.userName,
               title |-> postData.title, content |-> postData.content,
               likesCount |-> 0, commentsCount |-> 0]
      withAvatar == IF Has(postData, "userAvatar")
                      THEN Merge(base, [userAvatar |-> postData.userAvatar])
                      ELSE base
  IN IF Has(postData, "imageData")
       THEN Merge(withAvatar, [imageData |-> postData.imageData])
       ELSE withAvatar

createPost_Call(pr, postData) ==
  /\ Begin(pr, "createPost", [postData |-> postData])
  /\ LET errors == validatePost(postData) IN
       IF Len(errors) > 0 THEN Throw(pr, Join(errors))
       ELSE Await(pr, "createPost_addDoc", Nil)
  /\ UNCHANGED store

createPost_addDoc(pr) ==
  /\ Resume(pr, "createPost_addDoc")
  /\ \/ /\ nextId <= MaxDocs
        /\ posts' = AddDoc(posts, nextId,
                           Stamped(PostDocument(args[pr].postData)))
        /\ nextId' = nextId + 1
        /\ Return(pr, nextId)
        /\ UNCHANGED <<comments, likes, groupStore, eventStore, userStore>>
     \/ Reject(pr)

\* ----------------------------------------------------------- updatePost
updatePost_Call(pr, postId, updates) ==
  /\ Begin(pr, "updatePost", [postId |-> postId, updates |-> updates])
  /\ LET errors == validatePost(updates) IN
       IF Len(errors) > 0 THEN Throw(pr, Join(errors))
       ELSE Await(pr, "updatePost_updateDoc", Nil)
  /\ UNCHANGED store

updatePost_updateDoc(pr) ==
  /\ Resume(pr, "updatePost_updateDoc")
  /\ \/ /\ args[pr].postId \in DOMAIN posts
        /\ posts' = UpdateDoc(posts, args[pr].postId, args[pr].updates)
        /\ Return(pr, "void")
        /\ UNCHANGED <<comments, likes, groupStore, eventStore, userStore,
                       nextId>>
     \/ /\ args[pr].postId \notin DOMAIN posts
        /\ Throw(pr, NotFound)
        /\ UNCHANGED store
     \/ Reject(pr)

\* ----------------------------------------------------------- deletePost
deletePost_Call(pr, postId) ==
  /\ Begin(pr, "deletePost", [postId |-> postId])
  /\ Await(pr, "deletePost_getComments", Nil)
  /\ UNCHANGED store

deletePost_getComments(pr) ==
  /\ Resume(pr, "deletePost_getComments")
  /\ \/ /\ Await(pr, "deletePost_deleteComments",
                 [commentIds |-> Where(comments, "postId", args[pr].postId),
                  likeIds |-> {}])
        /\ UNCHANGED store
     \/ Reject(pr)

\* Faulty variant: goes on to the likes although a comment deletion failed.
deletePost_deleteComments_Unchecked(pr) ==
  /\ Resume(pr, "deletePost_deleteComments")
  /\ \E applied \in SUBSET loc[pr].commentIds :
       /\ comments' = DeleteDocs(comments, applied)
       /\ Await(pr, "deletePost_getLikes", loc[pr])
  /\ UNCHANGED <<posts, likes, groupStore, eventStore, userStore, nextId>>

\* await Promise.all(deletePromises): every deleteDoc is issued; the await
\* resumes when all were applied and throws when one was rejected.
deletePost_deleteComments(pr) ==
  /\ Resume(pr, "deletePost_deleteComments")
  /\ \E applied \in SUBSET loc[pr].commentIds :
       /\ comments' = DeleteDocs(comments, applied)
       /\ IF applied = loc[pr].commentIds
            THEN Await(pr, "deletePost_getLikes", loc[pr])
            ELSE Throw(pr, StoreError)
  /\ UNCHANGED <<posts, likes, groupStore, eventStore, userStore, nextId>>

deletePost_getLikes(pr) ==
  /\ Resume(pr, "deletePost_getLikes")
  /\ \/ /\ Await(pr, "deletePost_deleteLikes",
                 [loc[pr] EXCEPT
                    !.likeIds = Where(likes, "postId", args[pr].postId)])
        /\ UNCHANGED store
     \/ Reject(pr)

\* Faulty variant: deletes the post although a like deletion failed.
deletePost_deleteLikes_PostAnyway(pr) ==
  /\ Resume(pr, "deletePost_deleteLikes")
  /\ \E applied \in SUBSET loc[pr].likeIds :
       /\ likes' = DeleteDocs(likes, applied)
       /\ posts' = DeleteDocs(posts, {args[pr].postId})
       /\ IF applied = loc[pr].likeIds
            THEN Return(pr, "void")
            ELSE Throw(pr, StoreError)
  /\ UNCHANGED <<comments, groupStore, eventStore, userStore, nextId>>

deletePost_deleteLikes(pr) ==
  /\ Resume(pr, "deletePost_deleteLikes")
  /\ \E applied \in SUBSET loc[pr].likeIds :
       /\ likes' = DeleteDocs(likes, applied)
       /\ IF applied = loc[pr].likeIds
            THEN Await(pr, "deletePost_deleteDoc", loc[pr])
            ELSE Throw(pr, StoreError)
  /\ UNCHANGED <<posts, comments, groupStore, eventStore, userStore, nextId>>

deletePost_deleteDoc(pr) ==
  /\ Resume(pr, "deletePost_deleteDoc")
  /\ \/ /\ posts' = DeleteDocs(posts, {args[pr].postId})
        /\ Return(pr, "void")
        /\ UNCHANGED <<comments, likes, groupStore, eventStore, userStore,
                       nextId>>
     \/ Reject(pr)

\* -------------------------------------------------------- createComment
CommentDocument(commentData) ==
  LET base == [postId |-> commentData.postId, userId |-> commentData.userId,
               userName |-> commentData.userName,
               content |-> commentData.content]
  IN IF Has(commentData, "userAvatar")
       THEN Merge(base, [userAvatar |-> commentData.userAvatar])
       ELSE base

\* Faulty variant: builds and stores the comment without validating it.
createComment_Call_NoValidation(pr, commentData) ==
  /\ Begin(pr, "createComment", [commentData |-> commentData,
                                 postId |-> commentData.postId])
  /\ Await(pr, "createComment_addDoc", Nil)
  /\ UNCHANGED store

createComment_Call(pr, commentData) ==
  /\ Begin(pr, "createComment", [commentData |-> commentData,
                                 postId |-> commentData.postId])
  /\ LET errors == validateComment(commentData) IN
       IF Len(errors) > 0 THEN Throw(pr, Join(errors))
       ELSE Await(pr, "createComment_addDoc", Nil)
  /\ UNCHANGED store

createComment_addDoc(pr) ==
  /\ Resume(pr, "createComment_addDoc")
  /\ \/ /\ nextId <= MaxDocs
        /\ comments' = AddDoc(comments, nextId,
                              Stamped(CommentDocument(args[pr].commentData)))
        /\ nextId' = nextId + 1
        /\ Await(pr, "createComment_getDoc", [docRef |-> nextId])
        /\ UNCHANGED <<posts, likes, groupStore, eventStore, userStore>>
     \/ Reject(pr)

createComment_getDoc(pr) ==
  /\ Resume(pr, "createComment_getDoc")
  /\ \/ /\ IF args[pr].postId \in DOMAIN posts
             THEN Await(pr, "createComment_updateDoc",
                        [docRef |-> loc[pr].docRef,
                         currentCount |->
                           OrZero(posts[args[pr].postId], "commentsCount")])
             ELSE Return(pr, loc[pr].docRef)
        /\ UNCHANGED store
     \/ Reject(pr)

\* updateDoc(postRef, { commentsCount: currentCount + 1 })
CommentAdded(currentCount) == [commentsCount |-> currentCount + 1]

\* Faulty variant: adds one to the count the post holds when the write is
\* applied, not to the count read before.
createComment_updateDoc_Increment(pr) ==
  /\ Resume(pr, "createComment_updateDoc")
  /\ \/ /\ args[pr].postId \in DOMAIN posts
        /\ posts' = UpdateDoc(posts, args[pr].postId,
                              [commentsCount |->
                                 OrZero(posts[args[pr].postId],
                                        "commentsCount") + 1])
        /\ Return(pr, loc[pr].docRef)
        /\ UNCHANGED <<comments, likes, groupStore, eventStore, userStore,
                       nextId>>
     \/ /\ args[pr].postId \notin DOMAIN posts
        /\ Throw(pr, NotFound)
        /\ UNCHANGED store
     \/ Reject(pr)

createComment_updateDoc(pr) ==
  /\ Resume(pr, "createComment_updateDoc")
  /\ \/ /\ args[pr].postId \in DOMAIN posts
        /\ posts' = UpdateDoc(posts, args[pr].postId,
                              CommentAdded(loc[pr].currentCount))
        /\ Return(pr, loc[pr].docRef)
        /\ UNCHANGED <<comments, likes, groupStore, eventStore, userStore,
                       nextId>>
     \/ /\ args[pr].postId \notin DOMAIN posts
        /\ Throw(pr, NotFound)
        /\ UNCHANGED store
     \/ Reject(pr)

\* -------------------------------------------------------- deleteComment
deleteComment_Call(pr, commentId, postId) ==
  /\ Begin(pr, "deleteComment", [commentId |-> commentId, postId |-> postId])
  /\ Await(pr, "deleteComment_deleteDoc", Nil)
  /\ UNCHANGED store

deleteComment_deleteDoc(pr) ==
  /\ Resume(pr, "deleteComment_deleteDoc")
  /\ \/ /\ comments' = DeleteDocs(comments, {args[pr].commentId})
        /\ Await(pr, "deleteComment_getDoc", Nil)
        /\ UNCHANGED <<posts, likes, groupStore, eventStore, userStore,
                       nextId>>
     \/ Reject(pr)

deleteComment_getDoc(pr) ==
  /\ Resume(pr, "deleteComment_getDoc")
  /\ \/ /\ IF args[pr].postId \in DOMAIN posts
             THEN Await(pr, "deleteComment_updateDoc",
                        [currentCount |->
                           OrZero(posts[args[pr].postId], "commentsCount")])
             ELSE Return(pr, "void")
        /\ UNCHANGED store
     \/ Reject(pr)

\* Faulty variant: decrements without the floor at 0.
CommentRemoved_NoFloor(currentCount) == [commentsCount |-> currentCount - 1]

\* updateDoc(postRef, { commentsCount: Math.max(0, currentCount - 1) })
CommentRemoved(currentCount) == [commentsCount |-> Max0(currentCount - 1)]

deleteComment_updateDoc(pr) ==
  /\ Resume(pr, "deleteComment_updateDoc")
  /\ \/ /\ args[pr].postId \in DOMAIN posts
        /\ posts' = UpdateDoc(posts, args[pr].postId,
                              CommentRemoved(loc[pr].currentCount))
        /\ Return(pr, "void")
        /\ UNCHANGED <<comments, likes, groupStore, eventStore, userStore,
                       nextId>>
     \/ /\ args[pr].postId \notin DOMAIN posts
        /\ Throw(pr, NotFound)
        /\ UNCHANGED store
     \/ Reject(pr)

\* ----------------------------------------------------------- toggleLike
\* query(likes, where('postId', '==', postId), where('userId', '==', userId))
LikesOf(coll, postId, userId) ==
  Where(coll, "postId", postId) \cap Where(coll, "userId", userId)

toggleLike_Call(pr, postId, userId, userName) ==
  /\ Begin(pr, "toggleLike",
           [postId |-> postId, userId |-> userId, userName |-> userName])
  /\ Await(pr, "toggleLike_getDocs", Nil)
  /\ UNCHANGED store

\* Faulty variant: inserts without looking at the result of the lookup.
toggleLike_getDocs_NoLookup(pr) ==
  /\ Resume(pr, "toggleLike_getDocs")
  /\ \/ /\ Await(pr, "toggleLike_addDoc", Nil)
        /\ UNCHANGED store
     \/ Reject(pr)

\* if (querySnapshot.empty) ... else { likeDoc = querySnapshot.docs[0] ... }
\* The snapshot lists the documents by their (store-assigned, random) ids, so
\* docs[0] is any one of the matching documents.
toggleLike_getDocs(pr) ==
  /\ Resume(pr, "toggleLike_getDocs")
  /\ \/ /\ LET found == LikesOf(likes, args[pr].postId, args[pr].userId) IN
             IF found = {}
               THEN Await(pr, "toggleLike_addDoc", Nil)
               ELSE \E likeDoc \in found :
                      Await(pr, "toggleLike_deleteDoc", [likeDoc |-> likeDoc])
        /\ UNCHANGED store
     \/ Reject(pr)

LikeDocument(a) ==
  [postId |-> a.postId, userId |-> a.userId, userName |-> a.userName]

toggleLike_addDoc(pr) ==
  /\ Resume(pr, "toggleLike_addDoc")
  /\ \/ /\ nextId <= MaxDocs
        /\ likes' = AddDoc(likes, nextId, LikeDocument(args[pr]))
        /\ nextId' = nextId + 1
        /\ Await(pr, "toggleLike_getDocLiked", Nil)
        /\ UNCHANGED <<posts, comments, groupStore, eventStore, userStore>>
     \/ Reject(pr)

toggleLike_getDocLiked(pr) ==
  /\ Resume(pr, "toggleLike_getDocLiked")
  /\ \/ /\ IF args[pr].postId \in DOMAIN posts
             THEN Await(pr, "toggleLike_updateDocLiked",
                        [currentCount |->
                           OrZero(posts[args[pr].postId], "likesCount")])
             ELSE Return(pr, TRUE)
        /\ UNCHANGED store
     \/ Reject(pr)

\* updateDoc(postRef, { likesCount: currentCount + 1 })
LikeAdded(currentCount) == [likesCount |-> currentCount + 1]

toggleLike_updateDocLiked(pr) ==
  /\ Resume(pr, "toggleLike_updateDocLiked")
  /\ \/ /\ args[pr].postId \in DOMAIN posts
        /\ posts' = UpdateDoc(posts, args[pr].postId,
                              LikeAdded(loc[pr].currentCount))
        /\ Return(pr, TRUE)
        /\ UNCHANGED <<comments, likes, groupStore, eventStore, userStore,
                       nextId>>
     \/ /\ args[pr].postId \notin DOMAIN posts
        /\ Throw(pr, NotFound)
        /\ UNCHANGED store
     \/ Reject(pr)

toggleLike_deleteDoc(pr) ==
  /\ Resume(pr, "toggleLike_deleteDoc")
  /\ \/ /\ likes' = DeleteDocs(likes, {loc[pr].likeDoc})
        /\ Await(pr, "toggleLike_getDocUnliked", Nil)
        /\ UNCHANGED <<posts, comments, groupStore, eventStore, userStore,
                       nextId>>
     \/ Reject(pr)

toggleLike_getDocUnliked(pr) ==
  /\ Resume(pr, "toggleLike_getDocUnliked")
  /\ \/ /\ IF args[pr].postId \in DOMAIN posts
             THEN Await(pr, "toggleLike_updateDocUnliked",
                        [currentCount |->
                           OrZero(posts[args[pr].postId], "likesCount")])
             ELSE Return(pr, FALSE)
        /\ UNCHANGED store
     \/ Reject(pr)

\* Faulty variant: leaves the count as it is.
LikeRemoved_NoDecrement(currentCount) == [likesCount |-> Max0(currentCount)]

\* updateDoc(postRef, { likesCount: Math.max(0, currentCount - 1) })
LikeRemoved(currentCount) == [likesCount |-> Max0(currentCount - 1)]

toggleLike_updateDocUnliked(pr) ==
  /\ Resume(pr, "toggleLike_updateDocUnliked")
  /\ \/ /\ args[pr].postId \in DOMAIN posts
        /\ posts' = UpdateDoc(posts, args[pr].postId,
                              LikeRemoved(loc[pr].currentCount))
        /\ Return(pr, FALSE)
        /\ UNCHANGED <<comments, likes, groupStore, eventStore, userStore,
                       nextId>>
     \/ /\ args[pr].postId \notin DOMAIN posts
        /\ Throw(pr, NotFound)
        /\ UNCHANGED store
     \/ Reject(pr)

\* ---------------------------------------------------------- createGroup
GroupPayloads ==
  { [name |-> Str(12), description |-> Str(17), createdBy |-> "u1",
     creatorName |-> "U", isPrivate |-> FALSE],
    [name |-> Str(50), description |-> Str(500), createdBy |-> "u1",
     creatorName |-> "U", isPrivate |-> TRUE, imageData |-> "image"],
    [name |-> Str(2), description |-> Str(17), createdBy |-> "u1",
     creatorName |-> "U", isPrivate |-> FALSE],
    [name |-> Str(51), description |-> Blank(4), createdBy |-> "u1",
     creatorName |-> "U", isPrivate |-> TRUE] }

\* a || b on booleans
OrElse(a, b) == IF a THEN a ELSE b

GroupDocument(groupData) ==
  LET base == [name |-> groupData.name, description |-> groupData.description,
               createdBy |-> groupData.createdBy,
               creatorName |-> groupData.creatorName, memberCount |-> 1,
               isPrivate |-> OrElse(groupData.isPrivate, FALSE)]
  IN IF Has(groupData, "imageData")
       THEN Merge(base, [imageData |-> groupData.imageData])
       ELSE base

createGroup_Call(pr, groupData) ==
  /\ Begin(pr, "createGroup", [groupData |-> groupData])
  /\ LET errors == validateGroup(groupData) IN
       IF Len(errors) > 0 THEN Throw(pr, Join(errors))
       ELSE Await(pr, "createGroup_addDoc", Nil)
  /\ UNCHANGED store

createGroup_addDoc(pr) ==
  /\ Resume(pr, "createGroup_addDoc")
  /\ \/ /\ nextId <= MaxDocs
        /\ groups' = AddDoc(groups, nextId, GroupDocument(args[pr].groupData))
        /\ nextId' = nextId + 1
        /\ Await(pr, "createGroup_addMember", [docRef |-> nextId])
        /\ UNCHANGED <<postStore, groupMembers, eventStore, userStore>>
     \/ Reject(pr)

\* Faulty variant: enrols the creator as an ordinary member.
createGroup_addMember_AsMember(pr) ==
  /\ Resume(pr, "createGroup_addMember")
  /\ \/ /\ nextId <= MaxDocs
        /\ groupMembers' =
             AddDoc(groupMembers, nextId,
                    [groupId |-> loc[pr].docRef,
                     userId |-> args[pr].groupData.createdBy,
                     userName |-> args[pr].groupData.creatorName,
                     role |-> "member"])
        /\ nextId' = nextId + 1
        /\ Return(pr, loc[pr].docRef)
        /\ UNCHANGED <<postStore, groups, eventStore, userStore>>
     \/ Reject(pr)

createGroup_addMember(pr) ==
  /\ Resume(pr, "createGroup_addMember")
  /\ \/ /\ nextId <= MaxDocs
        /\ groupMembers' =
             AddDoc(groupMembers, nextId,
                    [groupId |-> loc[pr].docRef,
                     userId |-> args[pr].groupData.createdBy,
                     userName |-> args[pr].groupData.creatorName,
                     role |-> "admin"])
        /\ nextId' = nextId + 1
        /\ Return(pr, loc[pr].docRef)
        /\ UNCHANGED <<postStore, groups, eventStore, userStore>>
     \/ Reject(pr)

\* ------------------------------------------------------------ joinGroup
\* query(groupMembers, where groupId == ..., where userId == ...)
MembersOf(coll, groupId, userId) ==
  Where(coll, "groupId", groupId) \cap Where(coll, "userId", userId)

AlreadyMember == "Already a member of this group"

joinGroup_Call(pr, groupId, userId, userName) ==
  /\ Begin(pr, "joinGroup",
           [groupId |-> groupId, userId |-> userId, userName |-> userName])
  /\ Await(pr, "joinGroup_getDocs", Nil)
  /\ UNCHANGED store

\* Faulty variant: adds the member without looking at the result of the lookup.
joinGroup_getDocs_NoLookup(pr) ==
  /\ Resume(pr, "joinGroup_getDocs")
  /\ \/ /\ Await(pr, "joinGroup_addDoc", Nil)
        /\ UNCHANGED store
     \/ Reject(pr)

\* if (!memberSnapshot.empty) throw new Error('Already a member of this group')
joinGroup_getDocs(pr) ==
  /\ Resume(pr, "joinGroup_getDocs")
  /\ \/ /\ IF MembersOf(groupMembers, args[pr].groupId, args[pr].userId) # {}
             THEN Throw(pr, AlreadyMember)
             ELSE Await(pr, "joinGroup_addDoc", Nil)
        /\ UNCHANGED store
     \/ Reject(pr)

MemberDocument(a) ==
  [groupId |-> a.groupId, userId |-> a.userId, userName |-> a.userName,
   role |-> "member"]

joinGroup_addDoc(pr) ==
  /\ Resume(pr, "joinGroup_addDoc")
  /\ \/ /\ nextId <= MaxDocs
        /\ groupMembers' = AddDoc(groupMembers, nextId, MemberDocument(args[pr]))
        /\ nextId' = nextId + 1
        /\ Await(pr, "joinGroup_getDoc", Nil)
        /\ UNCHANGED <<postStore, groups, eventStore, userStore>>
     \/ Reject(pr)

joinGroup_getDoc(pr) ==
  /\ Resume(pr, "joinGroup_getDoc")
  /\ \/ /\ IF args[pr].groupId \in DOMAIN groups
             THEN Await(pr, "joinGroup_updateDoc",
                        [currentCount |->
                           OrZero(groups[args[pr].groupId], "memberCount")])
             ELSE Return(pr, "void")
        /\ UNCHANGED store
     \/ Reject(pr)

\* updateDoc(groupRef, { memberCount: currentCount + 1 })
MemberAdded(currentCount) == [memberCount |-> currentCount + 1]

\* No operation of the module deletes a group, so the group read by getDoc is
\* still there when updateDoc is applied.
joinGroup_updateDoc(pr) ==
  /\ Resume(pr, "joinGroup_updateDoc")
  /\ \/ /\ groups' = UpdateDoc(groups, args[pr].groupId,
                               MemberAdded(loc[pr].currentCount))
        /\ Return(pr, "void")
        /\ UNCHANGED <<postStore, groupMembers, eventStore, userStore, nextId>>
     \/ Reject(pr)

\* ---------------------------------------------------------- createEvent
\* Dates are points on an integer time line.
EventPayloads ==
  { [title |-> Str(10), description |-> Str(20), createdBy |-> "u1",
     creatorName |-> "U", startDate |-> 1, endDate |-> 2, isPublic |-> TRUE],
    [title |-> Str(100), description |-> Str(1000), createdBy |-> "u1",
     creatorName |-> "U", startDate |-> 1, endDate |-> 2, isPublic |-> FALSE,
     groupId |-> 1, location |-> Str(4), maxParticipants |-> 10],
    [title |-> Str(10), description |-> Str(20), createdBy |-> "u1",
     creatorName |-> "U", startDate |-> 2, endDate |-> 2, isPublic |-> TRUE],
    [title |-> Str(2), description |-> Blank(1), createdBy |-> "u1",
     creatorName |-> "U", startDate |-> 2, endDate |-> 1, isPublic |-> TRUE] }

\* Faulty variant: writes a placeholder location when the payload has none.
EventDocument_NullLocation(eventData) ==
  Merge([title |-> eventData.title, description |-> eventData.description,
         createdBy |-> eventData.createdBy,
         creatorName |-> eventData.creatorName,
         startDate |-> eventData.startDate, endDate |-> eventData.endDate,
         currentParticipants |-> 1,
         isPublic |-> OrElse(eventData.isPublic, TRUE),
         location |-> "null"],
        [f \in DOMAIN eventData \cap {"groupId", "location", "maxParticipants"}
           |-> eventData[f]])

EventDocument(eventData) ==
  LET base == [title |-> eventData.title, description |-> eventData.description,
               createdBy |-> eventData.createdBy,
               creatorName |-> eventData.creatorName,
               startDate |-> eventData.startDate, endDate |-> eventData.endDate,
               currentParticipants |-> 1,
               isPublic |-> OrElse(eventData.isPublic, TRUE)]
      withGroup == IF Has(eventData, "groupId")
                     THEN Merge(base, [groupId |-> eventData.groupId])
                     ELSE base
      withLocation == IF Has(eventData, "location")
                        THEN Merge(withGroup, [location |-> eventData.location])
                        ELSE withGroup
  IN IF Has(eventData, "maxParticipants")
       THEN Merge(withLocation,
                  [maxParticipants |-> eventData.maxParticipants])
       ELSE withLocation

createEvent_Call(pr, eventData) ==
  /\ Begin(pr, "createEvent", [eventData |-> eventData])
  /\ LET errors == validateEvent(eventData) IN
       IF Len(errors) > 0 THEN Throw(pr, Join(errors))
       ELSE Await(pr, "createEvent_addDoc", Nil)
  /\ UNCHANGED store

createEvent_addDoc(pr) ==
  /\ Resume(pr, "createEvent_addDoc")
  /\ \/ /\ nextId <= MaxDocs
        /\ events' = AddDoc(events, nextId, EventDocument(args[pr].eventData))
        /\ nextId' = nextId + 1
        /\ Await(pr, "createEvent_addParticipant", [docRef |-> nextId])
        /\ UNCHANGED <<postStore, groupStore, eventParticipants, userStore>>
     \/ Reject(pr)

createEvent_addParticipant(pr) ==
  /\ Resume(pr, "createEvent_addParticipant")
  /\ \/ /\ nextId <= MaxDocs
        /\ eventParticipants' =
             AddDoc(eventParticipants, nextId,
                    [eventId |-> loc[pr].docRef,
                     userId |-> args[pr].eventData.createdBy,
                     userName |-> args[pr].eventData.creatorName,
                     status |-> "going"])
        /\ nextId' = nextId + 1
        /\ Return(pr, loc[pr].docRef)
        /\ UNCHANGED <<postStore, groupStore, events, userStore>>
     \/ Reject(pr)

\* ---------------------------------------------------- createUserProfile
ProfilePayloads ==
  { [uid |-> "u1", displayName |-> Str(5), email |-> "u1@example.org"],
    [uid |-> "u1", displayName |-> Str(8), email |-> "u1@example.org",
     bio |-> Str(10), profilePicture |-> "picture"],
    [uid |-> "u1", displayName |-> Str(1), email |-> "u1@example.org"],
    [uid |-> "u1", displayName |-> Str(51), email |-> "u1@example.org",
     bio |-> Str(501)] }

\* colors[name.length % colors.length] with the first two letters as initials
generateAvatarPlaceholder(name) == [placeholder |-> TRUE, colorIndex |-> name.len % 6]

ProfileDocument(profileData) ==
  Merge(profileData,
        [profilePicture |->
           IF Has(profileData, "profilePicture") /\ profileData.profilePicture # ""
             THEN profileData.profilePicture
             ELSE generateAvatarPlaceholder(profileData.displayName)])

createUserProfile_Call(pr, profileData) ==
  /\ Begin(pr, "createUserProfile", [profileData |-> profileData])
  /\ LET errors == validateUserProfile(profileData) IN
       IF Len(errors) > 0 THEN Throw(pr, Join(errors))
       ELSE Await(pr, "createUserProfile_addDoc", Nil)
  /\ UNCHANGED store

createUserProfile_addDoc(pr) ==
  /\ Resume(pr, "createUserProfile_addDoc")
  /\ \/ /\ nextId <= MaxDocs
        /\ userProfiles' = AddDoc(userProfiles, nextId,
                                  ProfileDocument(args[pr].profileData))
        /\ nextId' = nextId + 1
        /\ Return(pr, nextId)
        /\ UNCHANGED <<postStore, groupStore, eventStore, userSettings,
                       notifications>>
     \/ Reject(pr)

\* ------------------------------------------------------ reading records
\* data.field of a document read from the store: undefined when the document
\* has no such field.
Undefined == [undefined |-> TRUE]
Field(data, f) == IF Has(data, f) THEN [value |-> data[f]] ELSE Undefined

\* data.createdAt?.toDate() || new Date(): the client's clock when the field
\* is missing.
OrNow(data, f) == IF Has(data, f) THEN data[f] ELSE serverTimestamp

\* The orders in which a snapshot may list the documents ids.
Orders(ids) ==
  {order \in [1..Cardinality(ids) -> ids] :
     \A i, j \in 1..Cardinality(ids) : i # j => order[i] # order[j]}

\* ------------------------------------------------------------- getPost
PostEntity(id, data) ==
  [id |-> id, userId |-> data.userId, userName |-> data.userName,
   userAvatar |-> Field(data, "userAvatar"),
   title |-> data.title, content |-> data.content,
   imageData |-> Field(data, "imageData"),
   likesCount |-> OrZero(data, "likesCount"),
   commentsCount |-> OrZero(data, "commentsCount"),
   createdAt |-> OrNow(data, "createdAt")]

getPost_Call(pr, postId) ==
  /\ Begin(pr, "getPost", [postId |-> postId])
  /\ Await(pr, "getPost_getDoc", Nil)
  /\ UNCHANGED store

\* if (docSnap.exists()) return {...}; return null
getPost_getDoc(pr) ==
  /\ Resume(pr, "getPost_getDoc")
  /\ \/ /\ IF args[pr].postId \in DOMAIN posts
             THEN Return(pr, PostEntity(args[pr].postId, posts[args[pr].postId]))
             ELSE Return(pr, Nil)
        /\ UNCHANGED store
     \/ Reject(pr)

\* ---------------------------------------------------------- getComments
CommentEntity(id, data) ==
  [id |-> id, postId |-> data.postId, userId |-> data.userId,
   userName |-> data.userName, userAvatar |-> Field(data, "userAvatar"),
   content |-> data.content, createdAt |-> OrNow(data, "createdAt")]

\* querySnapshot.forEach(doc => comments.push({...})) over the snapshot's order
CommentEntities(order) ==
  [i \in DOMAIN order |-> CommentEntity(order[i], comments[order[i]])]

\* array.sort((a, b) => a.createdAt.getTime() - b.createdAt.getTime()): a
\* stable sort, ascending.
RECURSIVE InsertAscending(_, _)
InsertAscending(sorted, x) ==
  IF sorted = <<>> THEN <<x>>
  ELSE IF Head(sorted).createdAt <= x.createdAt
    THEN <<Head(sorted)>> \o InsertAscending(Tail(sorted), x)
    ELSE <<x>> \o sorted

RECURSIVE SortAscending(_)
SortAscending(array) ==
  IF array = <<>> THEN <<>>
  ELSE InsertAscending(SortAscending(SubSeq(array, 1, Len(array) - 1)),
                       array[Len(array)])

getComments_Call(pr, postId) ==
  /\ Begin(pr, "getComments", [postId |-> postId])
  /\ Await(pr, "getComments_getDocs", Nil)
  /\ UNCHANGED store

\* Faulty variant: returns the comments in the snapshot's order.
getComments_getDocs_Unsorted(pr) ==
  /\ Resume(pr, "getComments_getDocs")
  /\ \/ /\ \E order \in Orders(Where(comments, "postId", args[pr].postId)) :
             Return(pr, CommentEntities(order))
        /\ UNCHANGED store
     \/ Reject(pr)

\* The query has no orderBy: the snapshot lists the matching documents in
\* the order of their ids, which is any order.
getComments_getDocs(pr) ==
  /\ Resume(pr, "getComments_getDocs")
  /\ \/ /\ \E order \in Orders(Where(comments, "postId", args[pr].postId)) :
             Return(pr, SortAscending(CommentEntities(order)))
        /\ UNCHANGED store
     \/ Reject(pr)

\* ------------------------------------------------------------ getEvents
EventEntity(id, data) ==
  [id |-> id, title |-> data.title, description |-> data.description,
   createdBy |-> data.createdBy, creatorName |-> data.creatorName,
   groupId |-> Field(data, "groupId"),
   startDate |-> OrNow(data, "startDate"), endDate |-> OrNow(data, "endDate"),
   location |-> Field(data, "location"),
   maxParticipants |-> Field(data, "maxParticipants"),
   currentParticipants |-> OrZero(data, "currentParticipants"),
   isPublic |-> OrElse(Has(data, "isPublic") /\ data.isPublic, TRUE)]

\* limitCount: one event, or the default of 20.
EventLimits == {1, 20}

getEvents_Call(pr, limitCount) ==
  /\ Begin(pr, "getEvents", [limitCount |-> limitCount])
  /\ Await(pr, "getEvents_getDocs", Nil)
  /\ UNCHANGED store

\* query(events, orderBy('startDate', 'asc'), limit(limitCount)): the store
\* lists the events by start date, events of one start date in any order,
\* and cuts the list at limitCount.
getEvents_getDocs(pr) ==
  /\ Resume(pr, "getEvents_getDocs")
  /\ \/ /\ \E order \in Orders(DOMAIN events) :
             /\ \A i, j \in DOMAIN order :
                  i < j => events[order[i]].startDate <= events[order[j]].startDate
             /\ LET n == IF Len(order) < args[pr].limitCount
                           THEN Len(order) ELSE args[pr].limitCount
                IN Return(pr, [i \in 1..n |->
                                 EventEntity(order[i], events[order[i]])])
        /\ UNCHANGED store
     \/ Reject(pr)

\* --------------------------------------------------- createUserSettings
DefaultSettings(userId) ==
  [userId |-> userId,
   notifications |-> [likes |-> TRUE, comments |-> TRUE, follows |-> TRUE,
                      groupInvites |-> TRUE, eventInvites |-> TRUE,
                      systemUpdates |-> TRUE],
   privacy |-> [profileVisibility |-> "public", showEmail |-> FALSE,
                showOnlineStatus |-> TRUE],
   preferences |-> [theme |-> "system", language |-> "en",
                    autoPlayVideos |-> TRUE]]

\* The function validates nothing and reads nothing before it writes.
createUserSettings_Call(pr, userId) ==
  /\ Begin(pr, "createUserSettings", [userId |-> userId])
  /\ Await(pr, "createUserSettings_addDoc", Nil)
  /\ UNCHANGED store

createUserSettings_addDoc(pr) ==
  /\ Resume(pr, "createUserSettings_addDoc")
  /\ \/ /\ nextId <= MaxDocs
        /\ userSettings' = AddDoc(userSettings, nextId,
                                  DefaultSettings(args[pr].userId))
        /\ nextId' = nextId + 1
        /\ Return(pr, nextId)
        /\ UNCHANGED <<postStore, groupStore, eventStore, userProfiles,
                       notifications>>
     \/ Reject(pr)

\* ------------------------------------------------------ getUserSettings
SettingsEntity(id, data) ==
  [id |-> id, userId |-> data.userId, notifications |-> data.notifications,
   privacy |-> data.privacy, preferences |-> data.preferences]

getUserSettings_Call(pr, userId) ==
  /\ Begin(pr, "getUserSettings", [userId |-> userId])
  /\ Await(pr, "getUserSettings_getDocs", Nil)
  /\ UNCHANGED store

\* if (querySnapshot.empty) return null; const doc = querySnapshot.docs[0]:
\* any one of the user's settings documents.
getUserSettings_getDocs(pr) ==
  /\ Resume(pr, "getUserSettings_getDocs")
  /\ \/ /\ LET found == Where(userSettings, "userId", args[pr].userId) IN
             IF found = {} THEN Return(pr, Nil)
             ELSE \E id \in found : Return(pr, SettingsEntity(id, userSettings[id]))
        /\ UNCHANGED store
     \/ Reject(pr)

\* ---------------------------------------------------- createNotification
\* Notifications for either user, unread or read, with or without relatedId.
NotificationPayloads ==
  { [userId |-> "u1", type |-> "like", title |-> Str(4), message |-> Str(9),
     isRead |-> FALSE],
    [userId |-> "u1", type |-> "comment", title |-> Str(7), message |-> Str(9),
     isRead |-> TRUE, relatedId |-> 1],
    [userId |-> "u2", type |-> "system", title |-> Str(6), message |-> Str(9),
     isRead |-> FALSE] }

createNotification_Call(pr, notificationData) ==
  /\ Begin(pr, "createNotification", [notificationData |-> notificationData])
  /\ Await(pr, "createNotification_addDoc", Nil)
  /\ UNCHANGED store

createNotification_addDoc(pr) ==
  /\ Resume(pr, "createNotification_addDoc")
  /\ \/ /\ nextId <= MaxDocs
        /\ notifications' = AddDoc(notifications, nextId,
                                   Stamped(args[pr].notificationData))
        /\ nextId' = nextId + 1
        /\ Return(pr, nextId)
        /\ UNCHANGED <<postStore, groupStore, eventStore, userProfiles,
                       userSettings>>
     \/ Reject(pr)

\* ---------------------------------------------------- live subscriptions
\* One screen holds one subscription.  onSnapshot(q, handler) registers the
\* handler on the query; the store emits a snapshot of the query's whole
\* result when the listener is registered and whenever the result changes;
\* the client library hands the emitted snapshots to the handler one at a
\* time, in the order of emission, as long as the listener is attached.
\* listener.next is the index of the snapshot the library hands over next.
Listening(query) == Merge(query, [attached |-> TRUE, next |-> 1])

Subscribe(query) ==
  /\ listener = Nil
  /\ listener' = Listening(query)
  /\ UNCHANGED <<emitted, delivered, unsubscribed>>
  /\ UNCHANGED <<store, pc, op, args, loc, res, ui, aside>>

\* query(comments, where('postId', '==', postId))
subscribeToComments(postId) ==
  Subscribe([collection |-> "comments", postId |-> postId])

\* query(posts, orderBy('createdAt', 'desc'), limit(20))
subscribeToPosts ==
  Subscribe([collection |-> "posts", limit |-> 20])

\* query(notifications, where('userId', '==', userId), limit(50))
subscribeToUserNotifications(userId) ==
  Subscribe([collection |-> "notifications", userId |-> userId, limit |-> 50])

\* The documents of a snapshot, in the order querySnapshot.forEach visits them.
Documents(coll, order) ==
  [i \in DOMAIN order |-> [id |-> order[i], data |-> coll[order[i]]]]

\* limit(n)
Limit(array, n) == SubSeq(array, 1, IF Len(array) < n THEN Len(array) ELSE n)

\* The snapshots the store may emit for a query now: the matching documents
\* in the query's order (any order when the query has no orderBy), cut at the
\* query's limit.
Snapshots(q) ==
  IF q.collection = "comments"
    THEN {Documents(comments, order) :
            order \in Orders(Where(comments, "postId", q.postId))}
  ELSE IF q.collection = "posts"
    THEN {Limit(Documents(posts, order), q.limit) :
            order \in {o \in Orders(DOMAIN posts) :
                         \A i, j \in DOMAIN o :
                           i < j => posts[o[i]].createdAt >= posts[o[j]].createdAt}}
  ELSE {Limit(Documents(notifications, order), q.limit) :
          order \in Orders(Where(notifications, "userId", q.userId))}

DocumentSet(snapshot) == {snapshot[i] : i \in DOMAIN snapshot}

\* The store emits a snapshot: the first one, or one that differs from the
\* last.  It emits whether or not the client still listens.
SnapshotEmitted ==
  /\ listener # Nil
  /\ Len(emitted) < MaxSnapshots
  /\ \E snapshot \in Snapshots(listener) :
       /\ IF emitted = <<>> THEN TRUE
          ELSE DocumentSet(snapshot) # DocumentSet(emitted[Len(emitted)])
       /\ emitted' = Append(emitted, snapshot)
  /\ UNCHANGED <<listener, delivered, unsubscribed>>
  /\ UNCHANGED <<store, pc, op, args, loc, res, ui, aside>>

\* array.sort((a, b) => b.createdAt.getTime() - a.createdAt.getTime()): a
\* stable sort, descending.
RECURSIVE InsertDescending(_, _)
InsertDescending(sorted, x) ==
  IF sorted = <<>> THEN <<x>>
  ELSE IF Head(sorted).createdAt >= x.createdAt
    THEN <<Head(sorted)>> \o InsertDescending(Tail(sorted), x)
    ELSE <<x>> \o sorted

RECURSIVE SortDescending(_)
SortDescending(array) ==
  IF array = <<>> THEN <<>>
  ELSE InsertDescending(SortDescending(SubSeq(array, 1, Len(array) - 1)),
                        array[Len(array)])

NotificationEntity(id, data) ==
  [id |-> id, userId |-> data.userId, type |-> data.type,
   title |-> data.title, message |-> data.message,
   isRead |-> Has(data, "isRead") /\ data.isRead,
   relatedId |-> Field(data, "relatedId"),
   createdAt |-> OrNow(data, "createdAt")]

\* callback(array): the screen's callback is invoked with the array.
Callback(array) == delivered' = Append(delivered, array)

\* Faulty variant: no callback for a snapshot without documents.
subscribeToComments_handler_SkipEmpty(querySnapshot) ==
  IF querySnapshot = <<>> THEN UNCHANGED delivered
  ELSE Callback(SortAscending(
         [i \in DOMAIN querySnapshot |->
            CommentEntity(querySnapshot[i].id, querySnapshot[i].data)]))

\* The handlers the helpers register: every document of the snapshot is
\* mapped, the array is sorted where the helper sorts, the callback is called.
subscribeToComments_handler(querySnapshot) ==
  Callback(SortAscending(
    [i \in DOMAIN querySnapshot |->
       CommentEntity(querySnapshot[i].id, querySnapshot[i].data)]))

subscribeToPosts_handler(querySnapshot) ==
  Callback([i \in DOMAIN querySnapshot |->
              PostEntity(querySnapshot[i].id, querySnapshot[i].data)])

subscribeToUserNotifications_handler(querySnapshot) ==
  Callback(SortDescending(
    [i \in DOMAIN querySnapshot |->
       NotificationEntity(querySnapshot[i].id, querySnapshot[i].data)]))

\* The library invokes the registered handler with the next emitted snapshot.
HandlerInvoked ==
  /\ listener # Nil /\ listener.attached
  /\ listener.next <= Len(emitted)
  /\ LET querySnapshot == emitted[listener.next] IN
       IF listener.collection = "comments"
         THEN subscribeToComments_handler(querySnapshot)
       ELSE IF listener.collection = "posts"
         THEN subscribeToPosts_handler(querySnapshot)
         ELSE subscribeToUserNotifications_handler(querySnapshot)
  /\ listener' = [listener EXCEPT !.next = @ + 1]
  /\ UNCHANGED <<emitted, unsubscribed>>
  /\ UNCHANGED <<store, pc, op, args, loc, res, ui, aside>>

\* Faulty variant: a handle whose second call attaches the listener again.
Unsubscribe_Toggle ==
  /\ listener # Nil
  /\ Len(unsubscribed) < MaxUnsubscribe
  /\ listener' = [listener EXCEPT !.attached = ~@]
  /\ unsubscribed' = Append(unsubscribed, Len(emitted))
  /\ UNCHANGED <<emitted, delivered>>
  /\ UNCHANGED <<store, pc, op, args, loc, res, ui, aside>>

\* The handle the helpers return is the one onSnapshot returns: a call of it
\* detaches the listener, a call on a detached listener does nothing.  The
\* screen calls it in the cleanup of its effect.
Unsubscribe ==
  /\ listener # Nil
  /\ Len(unsubscribed) < MaxUnsubscribe
  /\ listener' = [listener EXCEPT !.attached = FALSE]
  /\ unsubscribed' = Append(unsubscribed, Len(emitted))
  /\ UNCHANGED <<emitted, delivered>>
  /\ UNCHANGED <<store, pc, op, args, loc, res, ui, aside>>

\* ---------------------------------------------------------- AuthProvider
\* The identity provider knows an account by its uid and keeps its display
\* name; u1 has an account from the start, u2 gets one by signup.  Names
\* typed into the profile screen and into the signup screen.
DisplayNames == {"U", "V"}
SignupNames == {"V"}
ProviderMessages == {"auth/invalid-credential", "auth/network-request-failed"}

Account(uid) == [uid |-> uid]
Identity(uid, displayName) == [uid |-> uid, displayName |-> displayName]

\* An identity-change event: the provider's user, or null after a sign-out.
SignedIn(provider, uid) ==
  [provider EXCEPT
     !.currentUser = Account(uid),
     !.events = Append(@, Identity(uid, provider.profiles[uid]))]

SignedOut(provider) ==
  [provider EXCEPT !.currentUser = Nil, !.events = Append(@, Nil)]

\* A call of one of the context's functions: nothing but the context and the
\* provider is touched.
AuthCall(pr, name, a) ==
  /\ pc[pr] = "idle"
  /\ op' = [op EXCEPT ![pr] = name]
  /\ args' = [args EXCEPT ![pr] = a]
  /\ UNCHANGED <<store, subscription, screens, chat>>

AuthResume(pr, l) ==
  /\ pc[pr] = l
  /\ UNCHANGED <<op, args, store, subscription, screens, chat>>

\* setError(null); try { setLoading(true); ...
Started(context) == [context EXCEPT !.error = Nil, !.loading = TRUE]

\* ... } finally { setLoading(false); }
Finished(context) == [context EXCEPT !.loading = FALSE]

\* Faulty variant: shows a message of its own for the provider's.
Failed_OwnMessage(context, message) ==
  [context EXCEPT !.error = [message |-> "Something went wrong"],
                  !.loading = FALSE]

\* ... } catch (err) { setError(err.message); throw err; } finally { ... }
Failed(context, message) ==
  [context EXCEPT !.error = [message |-> message], !.loading = FALSE]

\* The awaited provider call is rejected with one of the provider's messages.
ProviderRejects(pr) ==
  \E message \in ProviderMessages :
    /\ authContext' = Failed(authContext, message)
    /\ Throw(pr, message)
    /\ UNCHANGED auth

\* auth.onAuthStateChanged((user) => { setUser(user); setLoading(false); })
onAuthStateChanged_next ==
  /\ auth.events # <<>>
  /\ authContext' = [authContext EXCEPT !.user = Head(auth.events),
                                        !.loading = FALSE]
  /\ auth' = [auth EXCEPT !.events = Tail(@)]
  /\ UNCHANGED <<store, pc, op, args, loc, res, subscription, screens,
                 chat, aside>>

login_Call(pr, email) ==
  /\ AuthCall(pr, "login", [email |-> email])
  /\ authContext' = Started(authContext)
  /\ Await(pr, "login_signIn", Nil)
  /\ UNCHANGED auth

\* await signInWithEmailAndPassword(auth, email, password)
login_signIn(pr) ==
  /\ AuthResume(pr, "login_signIn")
  /\ \/ /\ auth.profiles[args[pr].email] # Nil
        /\ Len(auth.events) < MaxAuthEvents
        /\ auth' = SignedIn(auth, args[pr].email)
        /\ authContext' = Finished(authContext)
        /\ Return(pr, "void")
     \/ ProviderRejects(pr)

signup_Call(pr, email, displayName) ==
  /\ AuthCall(pr, "signup", [email |-> email, displayName |-> displayName])
  /\ authContext' = Started(authContext)
  /\ Await(pr, "signup_createUser", Nil)
  /\ UNCHANGED auth

\* await createUserWithEmailAndPassword(auth, email, password): the new
\* account has no display name and is signed in.
signup_createUser(pr) ==
  /\ AuthResume(pr, "signup_createUser")
  /\ \/ /\ auth.profiles[args[pr].email] = Nil
        /\ Len(auth.events) < MaxAuthEvents
        /\ auth' = SignedIn([auth EXCEPT
                               !.profiles[args[pr].email] = [name |-> ""]],
                            args[pr].email)
        /\ Await(pr, "signup_updateProfile", [user |-> args[pr].email])
        /\ UNCHANGED authContext
     \/ ProviderRejects(pr)

\* await updateProfile(userCredential.user, { displayName })
signup_updateProfile(pr) ==
  /\ AuthResume(pr, "signup_updateProfile")
  /\ \/ /\ auth' = [auth EXCEPT !.profiles[loc[pr].user] =
                                   [name |-> args[pr].displayName]]
        /\ authContext' = Finished(authContext)
        /\ Return(pr, "void")
     \/ ProviderRejects(pr)

logout_Call(pr) ==
  /\ AuthCall(pr, "logout", Nil)
  /\ authContext' = Started(authContext)
  /\ Await(pr, "logout_signOut", Nil)
  /\ UNCHANGED auth

\* await signOut(auth)
logout_signOut(pr) ==
  /\ AuthResume(pr, "logout_signOut")
  /\ \/ /\ Len(auth.events) < MaxAuthEvents
        /\ auth' = SignedOut(auth)
        /\ authContext' = Finished(authContext)
        /\ Return(pr, "void")
     \/ ProviderRejects(pr)

\* if (user) { await updateProfile(user, ...) ... }: user is the context's
\* user of the render the function was called from.
updateUserName_Call(pr, newName) ==
  /\ AuthCall(pr, "updateUserName", [newName |-> newName])
  /\ IF authContext.user # Nil
       THEN /\ authContext' = Started(authContext)
            /\ Await(pr, "updateUserName_updateProfile",
                     [user |-> authContext.user])
       ELSE /\ authContext' = Finished(Started(authContext))
            /\ Return(pr, "void")
  /\ UNCHANGED auth

\* await updateProfile(user, { displayName: newName }); setUser({ ...user })
updateUserName_updateProfile(pr) ==
  /\ AuthResume(pr, "updateUserName_updateProfile")
  /\ \/ /\ auth' = [auth EXCEPT !.profiles[loc[pr].user.uid] =
                                   [name |-> args[pr].newName]]
        /\ authContext' =
             Finished([authContext EXCEPT
                         !.user = Identity(loc[pr].user.uid,
                                           [name |-> args[pr].newName])])
        /\ Return(pr, "void")
     \/ ProviderRejects(pr)

\* --------------------------------------------------- screens' subscriptions
\* The route parameter postId of the post-details screen: absent, or an id.
RoutePostIds == {Nil, [value |-> 1], [value |-> 2]}
MessageTexts == {"a"}

ConnectFailed == [message |-> "Failed to connect to chat service."]
LoadFailed ==
  [message |-> "Failed to load messages. Please check your connection."]
SendFailed == [message |-> "Failed to send message. Please try again."]

\* onSnapshot(...) attached a listener and returned its handle; the store owes
\* the new listener its first snapshot.
Opened(screen) ==
  [screen EXCEPT !.live = @ + 1, !.held = "open", !.owed = TRUE]

\* Faulty variant: the cleanup does not call the handle.
Cleanup_Leak(screen) == [screen EXCEPT !.held = "none"]

\* The function the last effect run returned, when it returned one:
\* () => unsubscribe(), in ChatScreen () => { if (unsubscribe) unsubscribe() }.
\* Calling the handle of a listener the store has ended changes nothing.
Cleanup(screen) ==
  IF screen.held = "open"
    THEN [screen EXCEPT !.live = @ - 1, !.held = "none", !.owed = FALSE,
                        !.closed = TRUE]
    ELSE [screen EXCEPT !.held = "none"]

\* The effects' bodies.  thrown: onSnapshot threw before it returned a handle.
PostsScreen_useEffect(screen) ==
  IF screen.user = Nil THEN screen ELSE Opened(screen)

PostDetailsScreen_useEffect(screen) ==
  IF screen.user = Nil THEN screen
  ELSE IF screen.postId = Nil THEN screen
  ELSE Opened(screen)

ChatScreen_useEffect(screen, thrown) ==
  IF screen.user = Nil THEN screen
  ELSE IF thrown THEN screen
  ELSE Opened(screen)

useEffect(s, screen, thrown) ==
  CASE s = "PostsScreen" -> PostsScreen_useEffect(screen)
    [] s = "PostDetailsScreen" -> PostDetailsScreen_useEffect(screen)
    [] s = "ChatScreen" -> ChatScreen_useEffect(screen, thrown)

\* Only ChatScreen wraps onSnapshot in try/catch, and only a signed-in user
\* gets as far as calling it; only PostDetailsScreen has a postId.
EffectInputs(s, postId, thrown) ==
  /\ s # "PostDetailsScreen" => postId = Nil
  /\ thrown => s = "ChatScreen" /\ authContext.user # Nil

ScreenFrame ==
  UNCHANGED <<store, pc, op, args, loc, res, subscription, authContext, auth,
              aside>>

\* The screen mounts: its state is the initial state and its effect runs.
Mount(s, postId, thrown) ==
  /\ ~screens[s].mounted
  /\ EffectInputs(s, postId, thrown)
  /\ screens' = [screens EXCEPT ![s] =
       useEffect(s, [Unmounted EXCEPT !.mounted = TRUE,
                                      !.user = authContext.user,
                                      !.postId = postId], thrown)]
  /\ chatScreen' =
       IF s # "ChatScreen" THEN chatScreen
       ELSE IF thrown THEN [loading |-> FALSE, error |-> ConnectFailed]
       ELSE [loading |-> TRUE, error |-> Nil]
  /\ UNCHANGED messages
  /\ ScreenFrame

\* A dependency of the effect ([user], [user, postId]) has changed: the
\* cleanup of the last run is called, then the effect runs again.
Rerun(s, postId, thrown) ==
  /\ screens[s].mounted
  /\ EffectInputs(s, postId, thrown)
  /\ screens[s].user # authContext.user \/ screens[s].postId # postId
  /\ screens' = [screens EXCEPT ![s] =
       useEffect(s, [Cleanup(screens[s]) EXCEPT !.user = authContext.user,
                                                !.postId = postId], thrown)]
  /\ chatScreen' =
       IF s = "ChatScreen" /\ thrown
         THEN [chatScreen EXCEPT !.loading = FALSE, !.error = ConnectFailed]
         ELSE chatScreen
  /\ UNCHANGED messages
  /\ ScreenFrame

\* The screen unmounts: the cleanup of the last run is called and the state
\* of the screen is dropped.
Unmount(s) ==
  /\ screens[s].mounted
  /\ screens' = [screens EXCEPT ![s] =
       [Cleanup(screens[s]) EXCEPT !.mounted = FALSE, !.user = Nil,
                                   !.postId = Nil, !.closed = FALSE]]
  /\ chatScreen' =
       IF s = "ChatScreen" THEN [loading |-> TRUE, error |-> Nil]
       ELSE chatScreen
  /\ UNCHANGED messages
  /\ ScreenFrame

\* ChatScreen's listener is invoked with a snapshot of 'messages'.
ChatScreen_onSnapshot_next ==
  /\ screens["ChatScreen"].held = "open"
  /\ screens["ChatScreen"].owed
  /\ screens' = [screens EXCEPT !["ChatScreen"].owed = FALSE]
  /\ chatScreen' = [chatScreen EXCEPT !.loading = FALSE]
  /\ UNCHANGED messages
  /\ ScreenFrame

\* The store ends ChatScreen's listener with an error: the error callback is
\* invoked once and the listener receives nothing after it.
ChatScreen_onSnapshot_error ==
  /\ screens["ChatScreen"].held = "open"
  /\ screens' = [screens EXCEPT !["ChatScreen"] =
       [@ EXCEPT !.live = @ - 1, !.held = "failed", !.owed = FALSE]]
  /\ chatScreen' = [chatScreen EXCEPT !.loading = FALSE, !.error = LoadFailed]
  /\ UNCHANGED messages
  /\ ScreenFrame

\* The Retry button, rendered when loading is false and error is set.
Retry_onPress ==
  /\ screens["ChatScreen"].mounted
  /\ ~chatScreen.loading
  /\ chatScreen.error # Nil
  /\ chatScreen' = [loading |-> TRUE, error |-> Nil]
  /\ UNCHANGED <<screens, messages>>
  /\ ScreenFrame

\* handleSend, from the chat view (rendered when loading is false and error
\* is null): addDoc to 'messages', or the error when addDoc is rejected.  An
\* attached listener on 'messages' is owed a snapshot of the new collection.
handleSend(messageText, rejected) ==
  /\ screens["ChatScreen"].mounted
  /\ ~chatScreen.loading
  /\ chatScreen.error = Nil
  /\ authContext.user # Nil
  /\ Len(messages) < MaxMessages
  /\ IF rejected
       THEN /\ chatScreen' = [chatScreen EXCEPT !.error = SendFailed]
            /\ UNCHANGED <<screens, messages>>
       ELSE /\ messages' = Append(messages,
                 [text |-> messageText, userId |-> authContext.user.uid])
            /\ screens' = [screens EXCEPT !["ChatScreen"].owed =
                 (screens["ChatScreen"].held = "open")]
            /\ UNCHANGED chatScreen
  /\ ScreenFrame

\* ------------------------------------------------------ PostDetailsScreen
\* The screen's handlers run as callers of the service: handling[pr] is the
\* post state the handleLike run by caller pr saw when it was pressed (the
\* post of the render whose closure it is).

\* setPost({ ...post, likesCount: liked ? post.likesCount + 1
\*                                      : post.likesCount - 1 })
PostLiked(post, liked) ==
  [post EXCEPT !.likesCount = IF liked THEN @ + 1 ELSE @ - 1]

\* loadPostDetails: const postData = await getPost(postId)
loadPostDetails_Call(pr, postId) ==
  /\ getPost_Call(pr, postId)
  /\ UNCHANGED aside

\* if (postData) setPost(postData); a failure is shown in an alert.
loadPostDetails_getPost(pr) ==
  /\ getPost_getDoc(pr)
  /\ postDetailsScreen' =
       IF res'[pr].status = "ok" /\ res'[pr].value # Nil
         THEN [postDetailsScreen EXCEPT !.post = res'[pr].value]
         ELSE postDetailsScreen
  /\ UNCHANGED ghosts

\* handleLike: if (!user || !postId || !post) return;
\*             const liked = await toggleLike(postId, user.uid, ...)
handleLike_Call(pr, userId, userName) ==
  /\ postDetailsScreen.post # Nil
  /\ toggleLike_Call(pr, postDetailsScreen.post.id, userId, userName)
  /\ postDetailsScreen' =
       [postDetailsScreen EXCEPT !.handling[pr] = postDetailsScreen.post]
  /\ UNCHANGED ghosts

\* The rest of handleLike, run with the step in which its toggleLike call
\* ends: setIsLiked(liked) and setPost(...) on the post the handler saw, or
\* the alert when toggleLike threw.
handleLike(pr) ==
  /\ postDetailsScreen.handling[pr] # Nil
  /\ postDetailsScreen' =
       IF pc'[pr] # "idle" THEN postDetailsScreen
       ELSE IF res'[pr].status = "ok"
         THEN [post |-> PostLiked(postDetailsScreen.handling[pr],
                                  res'[pr].value),
               isLiked |-> res'[pr].value,
               handling |-> [postDetailsScreen.handling EXCEPT ![pr] = Nil]]
         ELSE [postDetailsScreen EXCEPT !.handling[pr] = Nil]
  /\ UNCHANGED ghosts

\* ------------------------------------------- validateForm (create-post)
\* Titles and contents typed into the form: lengths around the limits,
\* as text, as whitespace only, and as text with whitespace around it.
TitleStrings ==
  {Str(n) : n \in (0..4) \cup (99..102)}
  \cup {Blank(n) : n \in (1..4) \cup (99..102)}
  \cup {Padded(1, 4), Padded(2, 1), Padded(98, 2), Padded(98, 3)}

ContentStrings ==
  {Str(n) : n \in {0, 5, 9, 10, 11, 1999, 2000, 2001}}
  \cup {Blank(n) : n \in {5, 10, 2000, 2001}}
  \cup {Padded(5, 5), Padded(1999, 2)}

\* errors.forEach(error => { if (error.includes('Title')) setTitleError(error)
\* else if (error.includes('Content')) setContentError(error) }): the messages
\* of the title checks are the ones that include 'Title'.
LastOr(errors, none) == IF errors = <<>> THEN none ELSE errors[Len(errors)]

validateForm_Call(pr, title, content) ==
  /\ Begin(pr, "validateForm", [title |-> title, content |-> content])
  /\ LET postData == [title |-> title, content |-> content]
         errors == validatePost(postData)
     IN Return(pr, [errors |-> errors,
                    titleError |-> LastOr(validatePostTitle(postData), ""),
                    contentError |-> LastOr(validatePostContent(postData), ""),
                    valid |-> Len(errors) = 0])
  /\ UNCHANGED store

\* ------------------------------------------------------ history of calls
PostOps == {"updatePost", "deletePost", "createComment", "deleteComment",
            "toggleLike"}

UserNames == {"U"}

\* What a step of caller pr adds to the record of a run of overlapping calls:
\* who acted during whose call, whether a toggleLike call was ever made
\* while another one for the same (post, user) was still running, and the
\* posts whose commentsCount a createComment call has read while another
\* createComment call held the same value to write it back incremented.
Overlaps(pr) ==
  LET calling == pc[pr] = "idle"
      others == Procs \ {pr}
      busy == \E q \in others : pc[q] # "idle"
      a == args'[pr]
  IN
  /\ solo' = [q \in Procs |->
                IF q # pr THEN FALSE
                ELSE IF calling THEN ~busy ELSE solo[pr]]
  /\ likeRace' =
       \/ likeRace
       \/ /\ calling /\ op'[pr] = "toggleLike"
          /\ \E q \in others : /\ pc[q] # "idle"
                                /\ op[q] = "toggleLike"
                                /\ args[q].postId = a.postId
                                /\ args[q].userId = a.userId
  /\ memberRace' =
       \/ memberRace
       \/ /\ calling /\ op'[pr] = "joinGroup"
          /\ \E q \in others :
               \/ /\ pc[q] # "idle" /\ op[q] = "joinGroup"
                  /\ args[q].groupId = a.groupId
                  /\ args[q].userId = a.userId
               \/ /\ pc[q] = "createGroup_addMember"
                  /\ loc[q].docRef = a.groupId
                  /\ args[q].groupData.createdBy = a.userId
  /\ countRace' =
       IF /\ pc[pr] = "createComment_getDoc"
          /\ pc'[pr] = "createComment_updateDoc"
          /\ \E q \in others : /\ pc[q] = "createComment_updateDoc"
                                /\ args[q].postId = a.postId
                                /\ loc[q].currentCount = loc'[pr].currentCount
         THEN countRace \cup {a.postId}
         ELSE countRace
  /\ UNCHANGED <<pre, prev, cdOnly, postDetailsScreen>>

\* The same toggleLike call made again right after it returned.
Repeats(pr) ==
  /\ op[pr] = "toggleLike" /\ op'[pr] = "toggleLike"
  /\ res[pr].status = "ok"
  /\ args'[pr] = args[pr]

\* A read of what the call before created: getPost of the id createPost
\* returned, or getEvents after createEvent returned.
ReadsBack(pr) ==
  /\ res[pr].status = "ok"
  /\ \/ /\ op[pr] = "createPost" /\ op'[pr] = "getPost"
        /\ args'[pr].postId = res[pr].value
     \/ op[pr] = "createEvent" /\ op'[pr] = "getEvents"

\* What a step of caller pr adds to the record of a run of calls made one at
\* a time: the posts and likes as the call found them, the call before it
\* when the call repeats it or reads back what it created, and the posts
\* whose whole history since createPost is returned createComment and
\* deleteComment calls on them.
History(pr) ==
  LET calling == pc[pr] = "idle"
      ended == pc'[pr] = "idle"
      name == op'[pr]
      a == args'[pr]
      r == res'[pr]
      onPost == IF name \in PostOps THEN {a.postId} ELSE {}
      foreign == IF name = "deleteComment" /\ a.commentId \in DOMAIN comments
                   THEN {comments[a.commentId].postId} \ {a.postId}
                   ELSE {}
      dropped ==
        (IF calling /\ name \notin {"createComment", "deleteComment"}
           THEN onPost ELSE {})
        \cup (IF calling THEN foreign ELSE {})
        \cup (IF ended /\ r.status = "error" THEN onPost ELSE {})
      added == IF ended /\ name = "createPost" /\ r.status = "ok"
                 THEN {r.value} \ {comments[i].postId : i \in DOMAIN comments}
                 ELSE {}
  IN
  /\ pre' = IF calling
              THEN [pre EXCEPT ![pr] = [posts |-> posts, likes |-> likes]]
              ELSE pre
  /\ prev' = IF calling
               THEN [prev EXCEPT ![pr] =
                       IF Repeats(pr)
                         THEN [value |-> res[pr].value, pre |-> pre[pr]]
                       ELSE IF ReadsBack(pr)
                         THEN [created |-> args[pr], id |-> res[pr].value]
                         ELSE Nil]
               ELSE prev
  /\ cdOnly' = (cdOnly \ dropped) \cup added
  /\ UNCHANGED <<solo, likeRace, memberRace, countRace,
               postDetailsScreen>>

\* ------------------------------------------------------- specifications
\* Posts and their likes under callers whose calls overlap.
Next ==
  \E pr \in Procs :
    \/ (\E postData \in ValidPosts : createPost_Call(pr, postData)) /\ Overlaps(pr)
    \/ createPost_addDoc(pr) /\ Overlaps(pr)
    \/ (\E postId \in Ids, userName \in UserNames :
          toggleLike_Call(pr, postId, "u1", userName)) /\ Overlaps(pr)
    \/ toggleLike_getDocs(pr) /\ Overlaps(pr)
    \/ toggleLike_addDoc(pr) /\ Overlaps(pr)
    \/ toggleLike_getDocLiked(pr) /\ Overlaps(pr)
    \/ toggleLike_updateDocLiked(pr) /\ Overlaps(pr)
    \/ toggleLike_deleteDoc(pr) /\ Overlaps(pr)
    \/ toggleLike_getDocUnliked(pr) /\ Overlaps(pr)
    \/ toggleLike_updateDocUnliked(pr) /\ Overlaps(pr)

Spec == Init /\ [][Next]_vars

\* Posts, comments and likes under calls made one at a time: a call returns
\* or throws before the next one is made.
NextSeq ==
  \/ (\E postData \in PlainPosts : createPost_Call(1, postData)) /\ History(1)
  \/ createPost_addDoc(1) /\ History(1)
  \/ (\E postId \in Ids, updates \in PostUpdates :
        updatePost_Call(1, postId, updates)) /\ History(1)
  \/ updatePost_updateDoc(1) /\ History(1)
  \/ (\E postId \in Ids : deletePost_Call(1, postId)) /\ History(1)
  \/ deletePost_getComments(1) /\ History(1)
  \/ deletePost_deleteComments(1) /\ History(1)
  \/ deletePost_getLikes(1) /\ History(1)
  \/ deletePost_deleteLikes(1) /\ History(1)
  \/ deletePost_deleteDoc(1) /\ History(1)
  \/ (\E commentData \in PlainComments :
        createComment_Call(1, commentData)) /\ History(1)
  \/ createComment_addDoc(1) /\ History(1)
  \/ createComment_getDoc(1) /\ History(1)
  \/ createComment_updateDoc(1) /\ History(1)
  \/ (\E commentId \in Ids, postId \in Ids :
        deleteComment_Call(1, commentId, postId)) /\ History(1)
  \/ deleteComment_deleteDoc(1) /\ History(1)
  \/ deleteComment_getDoc(1) /\ History(1)
  \/ deleteComment_updateDoc(1) /\ History(1)
  \/ (\E postId \in Ids, userName \in UserNames :
        toggleLike_Call(1, postId, "u1", userName)) /\ History(1)
  \/ toggleLike_getDocs(1) /\ History(1)
  \/ toggleLike_addDoc(1) /\ History(1)
  \/ toggleLike_getDocLiked(1) /\ History(1)
  \/ toggleLike_updateDocLiked(1) /\ History(1)
  \/ toggleLike_deleteDoc(1) /\ History(1)
  \/ toggleLike_getDocUnliked(1) /\ History(1)
  \/ toggleLike_updateDocUnliked(1) /\ History(1)

SpecSeq == Init /\ [][NextSeq]_vars

\* The create functions on every sample payload, one call at a time.
NextCreate ==
  \/ (\E postData \in PostPayloads : createPost_Call(1, postData)) /\ History(1)
  \/ createPost_addDoc(1) /\ History(1)
  \/ (\E commentData \in CommentPayloads :
        createComment_Call(1, commentData)) /\ History(1)
  \/ createComment_addDoc(1) /\ History(1)
  \/ createComment_getDoc(1) /\ History(1)
  \/ createComment_updateDoc(1) /\ History(1)
  \/ (\E groupData \in GroupPayloads : createGroup_Call(1, groupData)) /\ History(1)
  \/ createGroup_addDoc(1) /\ History(1)
  \/ createGroup_addMember(1) /\ History(1)
  \/ (\E eventData \in EventPayloads : createEvent_Call(1, eventData)) /\ History(1)
  \/ createEvent_addDoc(1) /\ History(1)
  \/ createEvent_addParticipant(1) /\ History(1)
  \/ (\E profileData \in ProfilePayloads :
        createUserProfile_Call(1, profileData)) /\ History(1)
  \/ createUserProfile_addDoc(1) /\ History(1)

SpecCreate == Init /\ [][NextCreate]_vars

\* The create-post form validating what was typed.
NextValidate ==
  \/ (\E title \in TitleStrings, content \in ContentStrings :
        validateForm_Call(1, title, content)) /\ History(1)

SpecValidate == Init /\ [][NextValidate]_vars

\* The group payloads without an image.
PlainGroups == {g \in GroupPayloads : ~Has(g, "imageData")}

\* The ids the store has handed out: an id passed to an operation is one the
\* caller has seen, since the store's ids cannot be guessed in advance.
Assigned == 1..(nextId - 1)

\* Groups and their members under callers whose calls overlap.
NextGroup ==
  \E pr \in Procs :
    \/ (\E groupData \in PlainGroups : createGroup_Call(pr, groupData))
         /\ Overlaps(pr)
    \/ createGroup_addDoc(pr) /\ Overlaps(pr)
    \/ createGroup_addMember(pr) /\ Overlaps(pr)
    \/ (\E groupId \in Assigned, userId \in Users, userName \in UserNames :
          joinGroup_Call(pr, groupId, userId, userName)) /\ Overlaps(pr)
    \/ joinGroup_getDocs(pr) /\ Overlaps(pr)
    \/ joinGroup_addDoc(pr) /\ Overlaps(pr)
    \/ joinGroup_getDoc(pr) /\ Overlaps(pr)
    \/ joinGroup_updateDoc(pr) /\ Overlaps(pr)

SpecGroup == Init /\ [][NextGroup]_vars

\* Posts, comments and events written and read back, one call at a time.
NextRead ==
  \/ (\E postData \in PostPayloads : createPost_Call(1, postData)) /\ History(1)
  \/ createPost_addDoc(1) /\ History(1)
  \/ (\E postId \in Assigned : getPost_Call(1, postId)) /\ History(1)
  \/ getPost_getDoc(1) /\ History(1)
  \/ (\E commentData \in PlainComments :
        createComment_Call(1, commentData)) /\ History(1)
  \/ createComment_addDoc(1) /\ History(1)
  \/ createComment_getDoc(1) /\ History(1)
  \/ createComment_updateDoc(1) /\ History(1)
  \/ (\E postId \in Assigned : getComments_Call(1, postId)) /\ History(1)
  \/ getComments_getDocs(1) /\ History(1)
  \/ (\E eventData \in EventPayloads : createEvent_Call(1, eventData)) /\ History(1)
  \/ createEvent_addDoc(1) /\ History(1)
  \/ createEvent_addParticipant(1) /\ History(1)
  \/ (\E limitCount \in EventLimits : getEvents_Call(1, limitCount)) /\ History(1)
  \/ getEvents_getDocs(1) /\ History(1)

SpecRead == Init /\ [][NextRead]_vars

\* User settings created and read, one call at a time.
NextSettings ==
  \/ (\E userId \in Users : createUserSettings_Call(1, userId)) /\ History(1)
  \/ createUserSettings_addDoc(1) /\ History(1)
  \/ (\E userId \in Users : getUserSettings_Call(1, userId)) /\ History(1)
  \/ getUserSettings_getDocs(1) /\ History(1)

SpecSettings == Init /\ [][NextSettings]_vars

\* One screen subscribed to a query while one caller writes posts, comments
\* and notifications, one call at a time.  The comments are valid ones on
\* documents the store holds.
ValidComments ==
  {c \in PlainComments : validateComment(c) = <<>> /\ c.postId \in Assigned}

NextSub ==
  \/ (\E postData \in ValidPosts : createPost_Call(1, postData))
       /\ UNCHANGED aside
  \/ createPost_addDoc(1) /\ UNCHANGED aside
  \/ (\E commentData \in ValidComments : createComment_Call(1, commentData))
       /\ UNCHANGED aside
  \/ createComment_addDoc(1) /\ UNCHANGED aside
  \/ createComment_getDoc(1) /\ UNCHANGED aside
  \/ createComment_updateDoc(1) /\ UNCHANGED aside
  \/ (\E notificationData \in NotificationPayloads :
        createNotification_Call(1, notificationData)) /\ UNCHANGED aside
  \/ createNotification_addDoc(1) /\ UNCHANGED aside
  \/ \E postId \in Ids : subscribeToComments(postId)
  \/ subscribeToPosts
  \/ \E userId \in Users : subscribeToUserNotifications(userId)
  \/ SnapshotEmitted
  \/ HandlerInvoked
  \/ Unsubscribe

SpecSub == Init /\ [][NextSub]_vars

\* Comments created by callers whose calls overlap.
NextCount ==
  \E pr \in Procs :
    \/ (\E postData \in ValidPosts : createPost_Call(pr, postData)) /\ Overlaps(pr)
    \/ createPost_addDoc(pr) /\ Overlaps(pr)
    \/ (\E commentData \in ValidComments : createComment_Call(pr, commentData))
         /\ Overlaps(pr)
    \/ createComment_addDoc(pr) /\ Overlaps(pr)
    \/ createComment_getDoc(pr) /\ Overlaps(pr)
    \/ createComment_updateDoc(pr) /\ Overlaps(pr)

SpecCount == Init /\ [][NextCount]_vars

\* A post deleted by one caller while another adds comments and likes to it.
NextCascade ==
  \/ (\E postData \in ValidPosts : createPost_Call(1, postData)) /\ Overlaps(1)
  \/ createPost_addDoc(1) /\ Overlaps(1)
  \/ (\E postId \in Assigned : deletePost_Call(1, postId)) /\ Overlaps(1)
  \/ deletePost_getComments(1) /\ Overlaps(1)
  \/ deletePost_deleteComments(1) /\ Overlaps(1)
  \/ deletePost_getLikes(1) /\ Overlaps(1)
  \/ deletePost_deleteLikes(1) /\ Overlaps(1)
  \/ deletePost_deleteDoc(1) /\ Overlaps(1)
  \/ (\E commentData \in ValidComments : createComment_Call(2, commentData))
       /\ Overlaps(2)
  \/ createComment_addDoc(2) /\ Overlaps(2)
  \/ createComment_getDoc(2) /\ Overlaps(2)
  \/ createComment_updateDoc(2) /\ Overlaps(2)
  \/ (\E postId \in Assigned, userName \in UserNames :
        toggleLike_Call(2, postId, "u1", userName)) /\ Overlaps(2)
  \/ toggleLike_getDocs(2) /\ Overlaps(2)
  \/ toggleLike_addDoc(2) /\ Overlaps(2)
  \/ toggleLike_getDocLiked(2) /\ Overlaps(2)
  \/ toggleLike_updateDocLiked(2) /\ Overlaps(2)
  \/ toggleLike_deleteDoc(2) /\ Overlaps(2)
  \/ toggleLike_getDocUnliked(2) /\ Overlaps(2)
  \/ toggleLike_updateDocUnliked(2) /\ Overlaps(2)

SpecCascade == Init /\ [][NextCascade]_vars

\* The context's functions called while the provider's identity-change events
\* arrive: caller 1 is the login, signup and chat screens (login, signup,
\* logout), caller 2 the profile screen (updateUserName).
NextAuth ==
  \/ onAuthStateChanged_next
  \/ (\E email \in Users : login_Call(1, email)) /\ Overlaps(1)
  \/ login_signIn(1) /\ Overlaps(1)
  \/ (\E email \in Users, displayName \in SignupNames :
        signup_Call(1, email, displayName)) /\ Overlaps(1)
  \/ signup_createUser(1) /\ Overlaps(1)
  \/ signup_updateProfile(1) /\ Overlaps(1)
  \/ logout_Call(1) /\ Overlaps(1)
  \/ logout_signOut(1) /\ Overlaps(1)
  \/ (\E newName \in DisplayNames : updateUserName_Call(2, newName))
       /\ Overlaps(2)
  \/ updateUserName_updateProfile(2) /\ Overlaps(2)

SpecAuth == Init /\ [][NextAuth]_vars


\* The three subscribing screens mounting, re-running their effects and
\* unmounting while the user signs in and out (caller 1: login, logout).
NextScreens ==
  \/ onAuthStateChanged_next
  \/ (\E email \in Users : login_Call(1, email)) /\ Overlaps(1)
  \/ login_signIn(1) /\ Overlaps(1)
  \/ logout_Call(1) /\ Overlaps(1)
  \/ logout_signOut(1) /\ Overlaps(1)
  \/ \E s \in Screens, postId \in RoutePostIds, thrown \in BOOLEAN :
       Mount(s, postId, thrown)
  \/ \E s \in Screens, postId \in RoutePostIds, thrown \in BOOLEAN :
       Rerun(s, postId, thrown)
  \/ \E s \in Screens : Unmount(s)
  \/ ChatScreen_onSnapshot_next
  \/ ChatScreen_onSnapshot_error
  \/ Retry_onPress

SpecScreens == Init /\ [][NextScreens]_vars

\* The chat screen alone.  What the screen and the store do by themselves is
\* weakly fair: a snapshot the store owes an attached listener is delivered,
\* and an effect whose dependency changed is re-run.  What the user, the
\* provider or the network may or may not do (sign in or out, send, press a
\* button, leave the screen, fail) is not.
NextChat ==
  \/ onAuthStateChanged_next
  \/ (\E email \in Users : login_Call(1, email)) /\ Overlaps(1)
  \/ login_signIn(1) /\ Overlaps(1)
  \/ logout_Call(1) /\ Overlaps(1)
  \/ logout_signOut(1) /\ Overlaps(1)
  \/ \E thrown \in BOOLEAN : Mount("ChatScreen", Nil, thrown)
  \/ \E thrown \in BOOLEAN : Rerun("ChatScreen", Nil, thrown)
  \/ Unmount("ChatScreen")
  \/ ChatScreen_onSnapshot_next
  \/ ChatScreen_onSnapshot_error
  \/ Retry_onPress
  \/ \E messageText \in MessageTexts, rejected \in BOOLEAN :
       handleSend(messageText, rejected)

SpecChat ==
  /\ Init
  /\ [][NextChat]_vars
  /\ WF_vars(ChatScreen_onSnapshot_next)
  /\ WF_vars(\E thrown \in BOOLEAN : Rerun("ChatScreen", Nil, thrown))
  /\ WF_vars(onAuthStateChanged_next)


\* The post-details screen of user u1: a post is created and loaded (caller
\* 1), and the like button is pressed, also while an earlier press is still
\* being handled (callers 1 and 2).  No other user acts.
NextLike ==
  \/ (\E postData \in ValidPosts : createPost_Call(1, postData))
       /\ UNCHANGED aside
  \/ createPost_addDoc(1) /\ UNCHANGED aside
  \/ \E postId \in Assigned : loadPostDetails_Call(1, postId)
  \/ loadPostDetails_getPost(1)
  \/ \E pr \in Procs :
       \/ \E userName \in UserNames : handleLike_Call(pr, "u1", userName)
       \/ toggleLike_getDocs(pr) /\ handleLike(pr)
       \/ toggleLike_addDoc(pr) /\ handleLike(pr)
       \/ toggleLike_getDocLiked(pr) /\ handleLike(pr)
       \/ toggleLike_updateDocLiked(pr) /\ handleLike(pr)
       \/ toggleLike_deleteDoc(pr) /\ handleLike(pr)
       \/ toggleLike_getDocUnliked(pr) /\ handleLike(pr)
       \/ toggleLike_updateDocUnliked(pr) /\ handleLike(pr)

SpecLike == Init /\ [][NextLike]_vars

\* =============================================================== claims
IsIdle(pr) == pc[pr] = "idle"
Returned(pr, name) == IsIdle(pr) /\ op[pr] = name /\ res[pr].status = "ok"
Threw(pr, name) == IsIdle(pr) /\ op[pr] = name /\ res[pr].status = "error"

LikePairs == {<<likes[i].postId, likes[i].userId>> : i \in DOMAIN likes}

\* C1 (as stated): in every reachable state, overlapping toggleLike calls
\* of one user on one post included, there is at most one Like record per
\* (postId, userId) pair.
C1_LikeUniqueAlways ==
  \A pair \in LikePairs : Cardinality(LikesOf(likes, pair[1], pair[2])) <= 1

\* C1 (amended): as long as no two toggleLike calls for the same
\* (postId, userId) have overlapped, there is at most one Like record per
\* (postId, userId) pair.
C1_LikeUniqueWithoutOverlap ==
  ~likeRace =>
    \A pair \in LikePairs : Cardinality(LikesOf(likes, pair[1], pair[2])) <= 1

\* Both callers have toggled the same (post, user), one call after the other,
\* and the Like is there.
C1_Witness ==
  /\ ~likeRace
  /\ Returned(1, "toggleLike") /\ Returned(2, "toggleLike")
  /\ args[1] = args[2]
  /\ args[1].postId \in DOMAIN posts
  /\ Cardinality(LikesOf(likes, args[1].postId, args[1].userId)) = 1

\* C3 (as stated): right after a toggleLike call that no other call
\* overlapped returns, the store holds no Like of (postId, userId) when it
\* returned false and exactly one when it returned true, from whatever state
\* the call started in.
C3_ToggleResultMatchesStore ==
  \A pr \in Procs :
    Returned(pr, "toggleLike") /\ solo[pr] =>
      LET found == LikesOf(likes, args[pr].postId, args[pr].userId) IN
        IF res[pr].value THEN Cardinality(found) = 1 ELSE found = {}

\* ------------------------------------------- claims on calls in sequence
CommentsOf(postId) == Where(comments, "postId", postId)

\* The second of two toggleLike calls with the same arguments, made right
\* after the first returned, has returned; the post existed before the first.
TwoTogglesDone ==
  /\ Returned(1, "toggleLike")
  /\ prev[1] # Nil
  /\ args[1].postId \in DOMAIN prev[1].pre.posts

\* C2 (as stated): for an existing post and a user, two toggleLike calls in
\* a row return true and then false, and likesCount is back at its value
\* before the first call.
C2_TrueThenFalse ==
  TwoTogglesDone =>
    /\ prev[1].value = TRUE
    /\ res[1].value = FALSE
    /\ posts[args[1].postId].likesCount =
         prev[1].pre.posts[args[1].postId].likesCount

\* C2 (amended): for an existing post and a user who has no Like on it, two
\* toggleLike calls in a row return true and then false, and likesCount is
\* back at its value before the first call, or at 0 when that was negative.
C2_TrueThenFalseFromUnliked ==
  TwoTogglesDone
  /\ LikesOf(prev[1].pre.likes, args[1].postId, args[1].userId) = {}
  =>
    /\ prev[1].value = TRUE
    /\ res[1].value = FALSE
    /\ posts[args[1].postId].likesCount =
         Max0(prev[1].pre.posts[args[1].postId].likesCount)

C2_Witness ==
  /\ TwoTogglesDone
  /\ LikesOf(prev[1].pre.likes, args[1].postId, args[1].userId) = {}
  /\ prev[1].value = TRUE /\ res[1].value = FALSE
  /\ posts[args[1].postId].likesCount = 0

\* C4 (as stated): after createComment and deleteComment calls on a post
\* that all returned, made one at a time on a post created with no comments,
\* the post's commentsCount is the number of Comment records of the post.
C4_CommentsCountMatches ==
  IsIdle(1) =>
    \A p \in cdOnly :
      /\ p \in DOMAIN posts
      /\ posts[p].commentsCount = Cardinality(CommentsOf(p))

\* C6: a deleteComment call on an existing post that returns lowers the
\* post's commentsCount by 1 when it was at least 1 and leaves it at 0 when it
\* was 0; the count it writes is never negative.
C6_DeleteCommentDecrements ==
  Returned(1, "deleteComment") /\ args[1].postId \in DOMAIN pre[1].posts =>
    LET before == pre[1].posts[args[1].postId].commentsCount
        after == posts[args[1].postId].commentsCount
    IN /\ before >= 1 => after = before - 1
       /\ before = 0 => after = 0
       /\ after >= 0

C6_Witness ==
  /\ Returned(1, "deleteComment")
  /\ args[1].postId \in DOMAIN pre[1].posts
  /\ pre[1].posts[args[1].postId].commentsCount = 2
  /\ posts[args[1].postId].commentsCount = 1

\* C7 (as stated): likesCount and commentsCount of a post are never negative
\* and change only in steps of createComment, deleteComment and toggleLike.
C7_CountsOnlyByDependents ==
  [][\A p \in DOMAIN posts \cap DOMAIN posts' :
       /\ posts'[p].likesCount >= 0 /\ posts'[p].commentsCount >= 0
       /\ (\/ posts'[p].likesCount # posts[p].likesCount
           \/ posts'[p].commentsCount # posts[p].commentsCount)
          => op[1] \in {"createComment", "deleteComment", "toggleLike"}]_vars

\* C8: while deletePost runs alone, the comments it found are gone before it
\* looks for likes, the comments and likes it found are gone before it
\* deletes the post, the post is there until then, and when it returns no
\* Comment and no Like of the post is left and the post is gone.
C8_CascadeInOrder ==
  LET p == args[1].postId IN
  /\ pc[1] \in {"deletePost_getLikes", "deletePost_deleteLikes",
                "deletePost_deleteDoc"}
       => loc[1].commentIds \cap DOMAIN comments = {}
  /\ pc[1] = "deletePost_deleteDoc"
       => /\ loc[1].likeIds \cap DOMAIN likes = {}
          /\ CommentsOf(p) = {} /\ Where(likes, "postId", p) = {}
  /\ pc[1] \in {"deletePost_getComments", "deletePost_deleteComments",
                "deletePost_getLikes", "deletePost_deleteLikes",
                "deletePost_deleteDoc"}
     /\ p \in DOMAIN pre[1].posts
       => p \in DOMAIN posts
  /\ Returned(1, "deletePost")
       => /\ CommentsOf(p) = {} /\ Where(likes, "postId", p) = {}
          /\ p \notin DOMAIN posts

\* deletePost returned for a post that had a comment and a like.
C8_Witness ==
  /\ Returned(1, "deletePost")
  /\ args[1].postId \in DOMAIN pre[1].posts
  /\ pre[1].posts[args[1].postId].commentsCount = 1
  /\ LikesOf(pre[1].likes, args[1].postId, "u1") # {}

\* The step of deletePost at which a deleteDoc of the like batch is rejected
\* (the comment batch went through before).
LikeBatchFails ==
  /\ pc[1] = "deletePost_deleteLikes"
  /\ res'[1].status = "error"

\* C9 (as stated): when the comment deletions of deletePost succeed and the
\* like deletions fail, the store is left with Likes of a post that no
\* longer exists.
C9_OrphanedLikes ==
  [][LikeBatchFails =>
       \E l \in DOMAIN likes' : likes'[l].postId \notin DOMAIN posts']_vars

\* C9 (amended): when the comment deletions of deletePost succeed and the
\* like deletions fail, the call throws without deleting the post: the post
\* is still there with the Likes that were not deleted, and without comments.
C9_PostKeptWhenLikesFail ==
  [][LikeBatchFails =>
       /\ posts' = posts
       /\ pc'[1] = "idle"
       /\ args[1].postId \in DOMAIN pre[1].posts
            => args[1].postId \in DOMAIN posts'
       /\ Where(likes', "postId", args[1].postId) # {}
       /\ Where(comments', "postId", args[1].postId) = {}]_vars

\* deletePost threw with the post's comments gone and its Like still there.
C9_Witness ==
  /\ Threw(1, "deletePost")
  /\ args[1].postId \in DOMAIN posts
  /\ posts[args[1].postId].commentsCount = 1
  /\ CommentsOf(args[1].postId) = {}
  /\ Where(likes, "postId", args[1].postId) # {}

\* C10 (as stated): validatePost does not check absent fields, so updatePost
\* of an existing post with only a valid content passes validation and
\* performs the write.
C10_PartialUpdateAccepted ==
  /\ IsIdle(1) /\ op[1] = "updatePost"
  /\ ~Has(args[1].updates, "title")
  /\ validatePostContent(args[1].updates) = <<>>
  /\ args[1].postId \in DOMAIN pre[1].posts
  => /\ validatePost(args[1].updates) = <<>>
     /\ res[1].status = "ok" \/ res[1].message = StoreError

\* -------------------------------------------------- claims on validation
\* The error list the validator of the create function called in this step
\* returns for the payload it was called with.
errorsOfCall ==
  CASE op'[1] = "createPost" -> validatePost(args'[1].postData)
    [] op'[1] = "createComment" -> validateComment(args'[1].commentData)
    [] op'[1] = "createGroup" -> validateGroup(args'[1].groupData)
    [] op'[1] = "createEvent" -> validateEvent(args'[1].eventData)
    [] op'[1] = "createUserProfile" ->
         validateUserProfile(args'[1].profileData)
    [] OTHER -> <<>>

\* C5: createPost, createComment, createGroup, createEvent and
\* createUserProfile validate before anything else: when the validator
\* returns errors, the call fails at once with the errors joined by ", " as
\* its message, it reaches no store read or write, and every collection and
\* counter is unchanged.
C5_ValidationBeforeStore ==
  [][pc[1] = "idle" /\ errorsOfCall # <<>> =>
       /\ pc'[1] = "idle"
       /\ res'[1] = [status |-> "error", value |-> "none",
                     message |-> Join(errorsOfCall)]
       /\ store' = store]_vars

\* createPost was called with a blank title and an empty content on a store
\* that holds records, and threw both messages joined.
C5_Witness ==
  /\ Threw(1, "createPost")
  /\ args[1].postData.title = Blank(3)
  /\ res[1].message = "Title is required, Content is required"
  /\ posts # EmptyColl /\ comments # EmptyColl /\ groups # EmptyColl

\* ------------------------------------------------ claims on validatePost
\* C11 (as stated): validatePost returns no error for every payload whose
\* title has 3 to 100 characters and whose content has 10 to 2000 characters,
\* whitespace-only strings included, and returns errors for title length 0, 2
\* or 101 and for content length 0, 5 or 2001.
C11_LengthsDecide ==
  Returned(1, "validateForm") =>
    LET title == args[1].title
        content == args[1].content
        errors == res[1].value.errors
    IN /\ title.len \in 3..100 /\ content.len \in 10..2000 => errors = <<>>
       /\ title.len \in {0, 2, 101} \/ content.len \in {0, 5, 2001}
            => errors # <<>>

\* C11 (amended): validatePost returns no error for every payload whose title
\* has 3 to 100 characters and whose content has 10 to 2000 characters when
\* neither is whitespace only; a whitespace-only title or content is reported
\* as required; and it returns errors for title length 0, 2 or 101 and for
\* content length 0, 5 or 2001.
C11_LengthsDecideUnlessBlank ==
  Returned(1, "validateForm") =>
    LET title == args[1].title
        content == args[1].content
        errors == res[1].value.errors
    IN /\ /\ title.len \in 3..100 /\ title.trimLen > 0
          /\ content.len \in 10..2000 /\ content.trimLen > 0
          => errors = <<>> /\ res[1].value.valid
       /\ title.trimLen = 0 => errors[1] = "Title is required"
       /\ content.trimLen = 0 => errors[Len(errors)] = "Content is required"
       /\ title.len \in {0, 2, 101} \/ content.len \in {0, 5, 2001}
            => errors # <<>> /\ ~res[1].value.valid

\* A title of 100 and a content of 2000 characters were accepted.
C11_Witness ==
  /\ Returned(1, "validateForm")
  /\ args[1].title = Str(100) /\ args[1].content = Str(2000)
  /\ res[1].value.errors = <<>>

\* ------------------------------------------------------ claims on groups
\* Caller pr makes a call in this step (a repeated failed call with the same
\* arguments changes nothing and is no step).
Calls(pr, name) ==
  /\ pc[pr] = "idle" /\ op'[pr] = name
  /\ <<op'[pr], args'[pr], res'[pr], pc'[pr]>> # <<op[pr], args[pr], res[pr], pc[pr]>>

\* The call of caller pr leaves the await at label l in this step.
Leaves(pr, l) == pc[pr] = l /\ pc'[pr] # l

GroupMembersOf(groupId) == Where(groupMembers, "groupId", groupId)

\* A createGroup call of caller pr that nothing overlapped has returned.
GroupCreated(pr) == Returned(pr, "createGroup") /\ solo[pr]

\* C12: createGroup with a 2-character name fails validation and writes
\* nothing; createGroup with a valid payload returns an id under which the
\* group is stored with memberCount = 1, and the members of that group are
\* then exactly one GroupMember, for the creator, with role 'admin'.
C12_CreateGroupScenario ==
  /\ [][\A pr \in Procs :
          Calls(pr, "createGroup") /\ args'[pr].groupData.name = Str(2) =>
            /\ pc'[pr] = "idle"
            /\ res'[pr].status = "error"
            /\ res'[pr].message = "Group name must be at least 3 characters"
            /\ store' = store]_vars
  /\ [](\A pr \in Procs :
          GroupCreated(pr) =>
            LET g == res[pr].value
                creator == args[pr].groupData.createdBy
            IN /\ g \in DOMAIN groups
               /\ groups[g].memberCount = 1
               /\ groups[g].name = args[pr].groupData.name
               /\ Cardinality(GroupMembersOf(g)) = 1
               /\ \A m \in GroupMembersOf(g) :
                    /\ groupMembers[m].userId = creator
                    /\ groupMembers[m].role = "admin")

\* One caller's createGroup was refused for its 2-character name, the
\* other's has returned with the creator enrolled.
C12_Witness ==
  /\ Threw(2, "createGroup") /\ args[2].groupData.name = Str(2)
  /\ GroupCreated(1)
  /\ GroupMembersOf(res[1].value) # {}

MemberPairs ==
  {<<groupMembers[i].groupId, groupMembers[i].userId>> : i \in DOMAIN groupMembers}

MemberUnique ==
  \A pair \in MemberPairs :
    Cardinality(MembersOf(groupMembers, pair[1], pair[2])) <= 1

\* The membership lookup of caller pr's joinGroup call is answered in this
\* step, and the user is a member of the group.
LookupOfMember(pr) ==
  /\ Leaves(pr, "joinGroup_getDocs")
  /\ MembersOf(groupMembers, args[pr].groupId, args[pr].userId) # {}

\* C13 (as stated): there is at most one GroupMember record per (groupId,
\* userId) in every reachable state, overlapping joinGroup calls included, and
\* a joinGroup call of a user who is already a member fails with 'Already a
\* member of this group' and leaves groupMembers and memberCount unchanged.
C13_MemberUniqueAlways ==
  /\ []MemberUnique
  /\ [][\A pr \in Procs :
          LookupOfMember(pr) =>
            /\ pc'[pr] = "idle"
            /\ res'[pr].status = "error"
            /\ res'[pr].message = AlreadyMember
            /\ groupStore' = groupStore]_vars

\* C13 (amended): as long as no joinGroup call has overlapped another
\* joinGroup call for the same group and user, or the createGroup call that
\* enrols that user as creator of that group, there is at most one GroupMember
\* record per (groupId, userId); and a joinGroup call of a user who is already
\* a member fails, with 'Already a member of this group' when the lookup is
\* answered and with the store's error when it is not, and leaves groupMembers
\* and memberCount unchanged.
C13_MemberUniqueWithoutOverlap ==
  /\ [](~memberRace => MemberUnique)
  /\ [][\A pr \in Procs :
          LookupOfMember(pr) =>
            /\ pc'[pr] = "idle"
            /\ res'[pr].status = "error"
            /\ res'[pr].message \in {AlreadyMember, StoreError}
            /\ groupStore' = groupStore]_vars

\* The creator of a group tried to join it and was refused; no calls raced.
C13_Witness ==
  /\ ~memberRace
  /\ Threw(1, "joinGroup") /\ res[1].message = AlreadyMember
  /\ args[1].groupId \in DOMAIN groups
  /\ groups[args[1].groupId].createdBy = args[1].userId
  /\ groups[args[1].groupId].memberCount = 1

\* -------------------------------------------------- claims on reading back
\* getPost(id) has returned, called right after createPost returned id.
PostReadBack == Returned(1, "getPost") /\ prev[1] # Nil

\* The optional field f is absent from the record read exactly when it was
\* absent from the payload, and has the payload's value otherwise.
SameOptional(got, payload, f) ==
  IF Has(payload, f) THEN got[f] = [value |-> payload[f]]
  ELSE got[f] = Undefined

\* C14: createPost(payload) followed by getPost(id) returns a record equal to
\* the payload on userId, userName, title and content, with likesCount = 0
\* and commentsCount = 0, and with userAvatar and imageData absent exactly
\* when they were absent from the payload.
C14_PostRoundTrip ==
  PostReadBack =>
    LET payload == prev[1].created.postData
        got == res[1].value
    IN /\ got # Nil
       /\ got.id = prev[1].id
       /\ got.userId = payload.userId /\ got.userName = payload.userName
       /\ got.title = payload.title /\ got.content = payload.content
       /\ got.likesCount = 0 /\ got.commentsCount = 0
       /\ SameOptional(got, payload, "userAvatar")
       /\ SameOptional(got, payload, "imageData")

\* A post without optional fields was read back, after one with both.
C14_Witness ==
  /\ PostReadBack
  /\ ~Has(prev[1].created.postData, "userAvatar")
  /\ res[1].value.userAvatar = Undefined
  /\ \E p \in DOMAIN posts : Has(posts[p], "imageData")

\* getEvents has returned, called right after createEvent returned, and the
\* list holds the event created.
EventReadBack ==
  /\ Returned(1, "getEvents") /\ prev[1] # Nil
  /\ \E i \in DOMAIN res[1].value : res[1].value[i].id = prev[1].id

\* C15 (as stated): createEvent(payload) followed by reading the event back
\* through getEvents returns a record equal to the payload on every required
\* field, isPublic included whether it was true or false, with
\* currentParticipants = 1.
C15_EventRoundTrip ==
  EventReadBack =>
    LET payload == prev[1].created.eventData
        got == CHOOSE e \in {res[1].value[i] : i \in DOMAIN res[1].value} :
                 e.id = prev[1].id
    IN /\ got.title = payload.title /\ got.description = payload.description
       /\ got.createdBy = payload.createdBy
       /\ got.creatorName = payload.creatorName
       /\ got.startDate = payload.startDate /\ got.endDate = payload.endDate
       /\ got.isPublic = payload.isPublic
       /\ got.currentParticipants = 1

\* The entries of an array are in ascending order of creation time.
Ascending(array) ==
  \A i, j \in DOMAIN array : i < j => array[i].createdAt <= array[j].createdAt

\* C16: after createPost and then createComment calls on the post that all
\* returned, the post's commentsCount is the number of comments created, and
\* getComments(postId) returns exactly the Comment records with that postId,
\* each once, in ascending order of creation time.
C16_CommentsListed ==
  Returned(1, "getComments") =>
    LET p == args[1].postId
        got == res[1].value
    IN /\ {got[i].id : i \in DOMAIN got} = CommentsOf(p)
       /\ Len(got) = Cardinality(CommentsOf(p))
       /\ \A i \in DOMAIN got :
            got[i] = CommentEntity(got[i].id, comments[got[i].id])
       /\ Ascending(got)
       /\ p \in cdOnly => posts[p].commentsCount = Len(got)

\* Two comments were created on a post and getComments returned both.
C16_Witness ==
  /\ Returned(1, "getComments")
  /\ args[1].postId \in cdOnly
  /\ Len(res[1].value) = 2
  /\ res[1].value[1].createdAt < res[1].value[2].createdAt
  /\ posts[args[1].postId].commentsCount = 2

\* ---------------------------------------------------- claims on settings
SettingsOf(userId) == Where(userSettings, "userId", userId)

\* C19 (as stated): after any sequence of createUserSettings(userId) calls
\* for one user the userSettings collection holds exactly one record of that
\* user, and the record carries the fixed defaults.
C19_OneSettingsRecord ==
  Returned(1, "createUserSettings") =>
    /\ Cardinality(SettingsOf(args[1].userId)) = 1
    /\ \A s \in SettingsOf(args[1].userId) :
         userSettings[s] = DefaultSettings(args[1].userId)

\* ------------------------------------------------ claims on subscriptions
\* Fields of an entity that hold an optional field of the document.
OptionalFields == {"userAvatar", "imageData", "relatedId"}

\* The array holds one entity for every document of the snapshot, and
\* nothing else.
Carries(array, snapshot) ==
  /\ Len(array) = Len(snapshot)
  /\ \A m \in DOMAIN snapshot :
       \E k \in DOMAIN array :
         /\ array[k].id = snapshot[m].id
         /\ \A f \in (DOMAIN snapshot[m].data \cap DOMAIN array[k])
                       \ OptionalFields :
              array[k][f] = snapshot[m].data[f]

\* C17: for one subscription made with subscribeToComments, subscribeToPosts
\* or subscribeToUserNotifications, the callback has been invoked once for
\* every snapshot handed to the handler and never for one the store did not
\* emit, the i-th invocation belongs to the i-th emitted snapshot, and it
\* carries the whole record set of that snapshot.
C17_CallbackPerSnapshot ==
  /\ Len(delivered) <= Len(emitted)
  /\ IF listener = Nil THEN delivered = <<>>
     ELSE Len(delivered) = listener.next - 1
  /\ \A i \in DOMAIN delivered : Carries(delivered[i], emitted[i])

\* Three snapshots of a post's comments have reached the callback: none, one
\* and two comments, the last one listed by the store newest first.
C17_Witness ==
  /\ listener # Nil
  /\ listener.collection = "comments"
  /\ Len(delivered) = 3
  /\ Len(delivered[1]) = 0 /\ Len(delivered[2]) = 1 /\ Len(delivered[3]) = 2
  /\ emitted[3][1].id > emitted[3][2].id

C20_FailedCreateCommentLeavesNothing ==
  [][(/\ pc[1] \in {"createComment_getDoc", "createComment_updateDoc"}
      /\ pc'[1] = "idle"
      /\ res'[1].status = "error")
       => loc[1].docRef \notin DOMAIN comments']_vars

\* --------------------------------------------- claims on overlapping calls
\* Both callers have returned from createComment on the post, and one of the
\* two read the post's count while the other held the same count to write.
BothCommented(postId) ==
  /\ postId \in countRace
  /\ postId \in DOMAIN posts
  /\ \A pr \in Procs : Returned(pr, "createComment") /\ args[pr].postId = postId

\* C23: when two overlapping createComment calls on one post have read the
\* same commentsCount, have both inserted their comment and have both written
\* the incremented count, the post's count is below the number of its
\* comments; with just these two comments it is one less.
C23_StaleCountUndercounts ==
  \A postId \in Ids :
    BothCommented(postId) =>
      /\ posts[postId].commentsCount <= Cardinality(CommentsOf(postId)) - 1
      /\ Cardinality(CommentsOf(postId)) = 2 => posts[postId].commentsCount = 1

\* Two overlapping calls have commented one post: two comments, count 1.
C23_Witness ==
  \E postId \in Ids :
    /\ BothCommented(postId)
    /\ Cardinality(CommentsOf(postId)) = 2
    /\ posts[postId].commentsCount = 1

\* C26: when a deletePost call returns, the store holds no comment and no
\* like of that post, whatever other calls ran meanwhile.
C26_NoChildAfterDelete ==
  [][\A pr \in Procs :
       (pc[pr] = "deletePost_deleteDoc" /\ pc'[pr] = "idle"
        /\ res'[pr].status = "ok")
         => /\ Where(comments', "postId", args[pr].postId) = {}
            /\ Where(likes', "postId", args[pr].postId) = {}]_vars

\* C27: createComment and toggleLike called with the id of a document that is
\* no post (any more) insert no record.
C27_NoChildWithoutPost ==
  [][(/\ pc[1] \in {"createComment_addDoc", "toggleLike_addDoc"}
      /\ args[1].postId \in Assigned \ DOMAIN posts)
       => comments' = comments /\ likes' = likes]_vars

\* ------------------------------------------------ claims on written documents
\* The document has each of the optional fields exactly when the payload has
\* it, with the payload's value.
WrittenAsGiven(document, payload, fields) ==
  \A f \in fields :
    /\ Has(document, f) <=> Has(payload, f)
    /\ Has(payload, f) => document[f] = payload[f]

\* C25: the document that createPost, createComment, createGroup or
\* createEvent adds holds userAvatar, imageData, groupId, location and
\* maxParticipants exactly when the payload holds them; a field the payload
\* lacks is not written under any value.
C25_OptionalFieldsAsGiven ==
  [][/\ \A id \in DOMAIN posts' \ DOMAIN posts :
          WrittenAsGiven(posts'[id], args[1].postData,
                         {"userAvatar", "imageData"})
     /\ \A id \in DOMAIN comments' \ DOMAIN comments :
          WrittenAsGiven(comments'[id], args[1].commentData, {"userAvatar"})
     /\ \A id \in DOMAIN groups' \ DOMAIN groups :
          WrittenAsGiven(groups'[id], args[1].groupData, {"imageData"})
     /\ \A id \in DOMAIN events' \ DOMAIN events :
          WrittenAsGiven(events'[id], args[1].eventData,
                         {"groupId", "location", "maxParticipants"})]_vars

\* The store holds an event written from a payload without optional fields
\* next to a post written with both of its optional fields.
C25_Witness ==
  /\ \E id \in DOMAIN events : ~Has(events[id], "location")
  /\ \E id \in DOMAIN posts :
       Has(posts[id], "userAvatar") /\ Has(posts[id], "imageData")
  /\ Returned(1, "createEvent")

\* ------------------------------------------------- claims on AuthProvider
AuthOps == {"login", "signup", "logout", "updateUserName"}

\* The call of caller pr is awaiting the identity provider.
InFlight(pr) ==
  pc[pr] \in {"login_signIn", "signup_createUser", "signup_updateProfile",
              "logout_signOut", "updateUserName_updateProfile"}

\* C21: login, signup, logout and updateUserName clear the error when they
\* are called; when the provider call fails the error becomes the provider's
\* message, the caller gets an error with the same message and loading is
\* false; when the call succeeds the error is left as it is and loading is
\* false, so that it is null after a call nothing else ran beside.
C21_ErrorStateFollowsCall ==
  /\ [][\A pr \in Procs :
          /\ (\E name \in AuthOps : Calls(pr, name))
               => authContext'.error = Nil
          /\ (InFlight(pr) /\ pc'[pr] = "idle" /\ res'[pr].status = "error")
               => /\ res'[pr].message \in ProviderMessages
                  /\ authContext'.error = [message |-> res'[pr].message]
                  /\ ~authContext'.loading
          /\ (InFlight(pr) /\ pc'[pr] = "idle" /\ res'[pr].status = "ok")
               => /\ authContext'.error = authContext.error
                  /\ ~authContext'.loading]_vars
  /\ [](\A pr \in Procs :
          (\E name \in AuthOps : Returned(pr, name)) /\ solo[pr]
            => authContext.error = Nil)

\* A login has failed after an earlier failure with the other message: the
\* error shown is the message of the last failure.
C21_Witness ==
  /\ Threw(1, "login")
  /\ res[1].message = "auth/invalid-credential"
  /\ authContext.error = [message |-> "auth/invalid-credential"]
  /\ ~authContext.loading
  /\ Threw(2, "updateUserName")
  /\ res[2].message = "auth/network-request-failed"

\* The uid the context's user refers to; none when the user is null.
Who(identity) == IF identity = Nil THEN "" ELSE identity.uid

\* C22: the context's user changes the identity it refers to only when an
\* identity-change event is delivered, and then to the identity of the event.
C22_UserFollowsEvents ==
  [][Who(authContext'.user) # Who(authContext.user)
       => /\ auth.events # <<>>
          /\ authContext'.user = Head(auth.events)
          /\ auth'.events = Tail(auth.events)]_vars

\* C28: when one of two overlapping calls completes while the other still
\* awaits the provider, loading stays true.
C28_LoadingWhileInFlight ==
  [][\A pr, q \in Procs :
       (pr # q /\ InFlight(pr) /\ pc'[pr] = "idle" /\ InFlight(q))
         => authContext'.loading]_vars


\* ---------------------------------------------------- claims on the screens
\* C24: a subscribing screen has at most one attached listener, none when it
\* is not mounted and none from an effect run that saw no user; the handle it
\* holds is the handle of that one listener.
C24_OneLiveSubscription ==
  \A s \in Screens :
    /\ screens[s].live <= 1
    /\ ~screens[s].mounted => screens[s].live = 0
    /\ screens[s].user = Nil => screens[s].live = 0
    /\ screens[s].live = 1 <=> screens[s].held = "open"

\* Every screen has re-run its effect since it was mounted: the cleanup has
\* called the handle of the listener attached before, and a listener is
\* attached now.
C24_Witness ==
  \A s \in Screens :
    screens[s].mounted /\ screens[s].closed /\ screens[s].live = 1

\* C29: once Retry has been pressed after the subscription's error (the ended
\* listener is still the one the screen holds, loading is true), the chat
\* screen eventually leaves the loading state.
C29_Retried ==
  /\ screens["ChatScreen"].mounted
  /\ screens["ChatScreen"].held = "failed"
  /\ chatScreen.loading

C29_RetryLeavesLoading == C29_Retried ~> ~chatScreen.loading


\* C30: the likesCount of the post-details screen's post is never negative,
\* and when a handleLike completes with success and leaves none running, it
\* is the likesCount stored for that post.
C30_LocalLikesCountIsStored ==
  [][LET local == postDetailsScreen'.post IN
     /\ local # Nil => local.likesCount >= 0
     /\ \A pr \in Procs :
          ( /\ postDetailsScreen.handling[pr] # Nil
            /\ pc'[pr] = "idle"
            /\ res'[pr].status = "ok"
            /\ \A q \in Procs : pc'[q] = "idle"
            /\ local.id \in DOMAIN posts' )
          => local.likesCount = OrZero(posts'[local.id], "likesCount")]_vars

====
